---- MODULE Spec2Model ----
(***************************************************************************)
(* Prompt Optimiser: the session phase state machine of the page           *)
(* component (Home), the additional-context builder, and the sliding-      *)
(* window rate limiter of the /api/analyse route.                          *)
(*                                                                         *)
(* Texts are sequences of one-character strings so that trimming and       *)
(* concatenation are computed, not assumed.                                *)
(***************************************************************************)
EXTENDS Integers, Sequences, FiniteSets, TLC

VARIABLES
    \* ---- Home component state (useState hooks) ----
    entryMode, phase, selectedVendor, selectedModel,
    inputText, problemContext, showProblemContext,
    critique, answers, result,
    isLoading, error, isRegenerating, retryCount,
    \* ---- Home: the debounce timer and the fetches awaiting a response ----
    resetTimeout, inflight,
    \* ---- Home: timers resetTimeoutRef lost track of; the time since the
    \* ---- last edit that started a timer, kept while a timer is pending and
    \* ---- stopped by the unmount; whether the component is mounted
    orphanTimers, sinceEdit, mounted,
    \* ---- Home of app/page.js: the implement-suggestions flag, the body of
    \* ---- the request implementSuggestions awaits, and the clipboard
    isImplementingSuggestions, implementRequest, clipboard,
    \* ---- route: rate limiter state and the clock ----
    rateLimit, lastCleanup, now,
    \* ---- route: every accepted request so far, and the last decision ----
    acceptedLog, lastDecision,
    \* ---- route: the identities that send no further request ----
    retired,
    \* ---- route: for every entry of the map, the requests accepted since
    \* ---- the entry was created ----
    entryLog,
    \* ---- app/api/analyse/route.js: the map of the full-rescan limiter and
    \* ---- its last decision, fed the requests the ring buffer is fed ----
    simpleRateLimit, simpleDecision,
    \* ---- route: for every identity, the limiter of a server that
    \* ---- receives only that identity's requests, and its last decision
    solo, soloDecision,
    \* ---- buildAdditionalContext applied to chosen arguments ----
    ctxCritique, ctxAnswers, ctxOut,
    \* ---- route: the model's text, the JSON value it was written around,
    \* ---- what is wrong with the text as JSON, and what the extraction
    \* ---- made of it
    responseText, embedded, defect, parsed,
    \* ---- route: the request POST is handling and where the handler stands,
    \* ---- what the model client returned, what the handler has done for the
    \* ---- request, its response and what it logged; the same of the
    \* ---- request before
    stage, request, upstream, steps, response, consoleLog, previous,
    \* ---- route: getClientIdentifier applied to chosen headers
    headers, clientId

sessionVars == <<entryMode, phase, selectedVendor, selectedModel,
                 inputText, problemContext, showProblemContext,
                 critique, answers, result,
                 isLoading, error, isRegenerating, retryCount,
                 resetTimeout, inflight, orphanTimers, sinceEdit, mounted,
                 isImplementingSuggestions, implementRequest, clipboard>>
rateVars == <<rateLimit, lastCleanup, now, acceptedLog, lastDecision,
              retired, entryLog>>
compareVars == <<simpleRateLimit, simpleDecision, solo, soloDecision>>
ctxVars == <<ctxCritique, ctxAnswers, ctxOut>>
extractVars == <<responseText, embedded, defect, parsed>>
routeVars == <<stage, request, upstream, steps, response, consoleLog,
               previous>>
identVars == <<headers, clientId>>
vars == <<sessionVars, rateVars, ctxVars, extractVars, routeVars, identVars,
          compareVars>>

(***************************************************************************)
(* Bounds                                                                  *)
(***************************************************************************)
MaxRetry == 4         \* failures counted before no further call is started
MaxInFlight == 2      \* fetches awaiting a response at the same time
TickMs == 150         \* the time that passes in one step of the timers

(***************************************************************************)
(* Texts                                                                   *)
(***************************************************************************)
IsSpace(ch) == ch \in {" ", "\n", "\t"}

RECURSIVE TrimStart(_)
TrimStart(s) ==
    IF s = <<>> THEN <<>>
    ELSE IF IsSpace(Head(s)) THEN TrimStart(Tail(s)) ELSE s

RECURSIVE TrimEnd(_)
TrimEnd(s) ==
    IF s = <<>> THEN <<>>
    ELSE IF IsSpace(s[Len(s)]) THEN TrimEnd(SubSeq(s, 1, Len(s) - 1)) ELSE s

\* String.prototype.trim
Trim(s) == TrimEnd(TrimStart(s))

EmptyText == <<>>
FourCharText == <<" ", "m", "a", "i", "l", " ">>
FiveCharText == <<"e", "m", "a", "i", "l", " ">>
InputTexts == {EmptyText, FourCharText, FiveCharText}

ProblemTexts == {EmptyText, <<"x">>}

(***************************************************************************)
(* Values of the state hooks                                               *)
(***************************************************************************)
NULL == [tag |-> "null"]
NoAnswers == [q \in {} |-> <<>>]

EntryModes == {"idea", "prompt"}
NoEntryMode == "null"

\* GUIDANCE[vendor].models, first two vendors and first two models of each
Vendors == {"claude", "gemini"}
Models(v) == IF v = "claude" THEN <<"Opus 4.5", "Sonnet 4.5">>
             ELSE <<"Pro", "Flash">>

Range(f) == {f[i] : i \in DOMAIN f}
AllModels == UNION {Range(Models(v)) : v \in Vendors}

Question(i, t) == [id |-> i, question |-> t]

\* critique objects a successful critique call can return
CritiqueA == [tag |-> "critique", name |-> "A",
              questions |-> <<Question("q1", <<"W">>)>>]
CritiqueB == [tag |-> "critique", name |-> "B",
              questions |-> <<Question("q1", <<"W">>), Question("q2", <<"H">>)>>]
Critiques == {CritiqueA, CritiqueB}

\* generation objects a successful generate call can return
ResultWithSuggestions == [tag |-> "result", generatedPrompt |-> "P1",
                          suggestions |-> <<"s1", "s2">>]
ResultPlain == [tag |-> "result", generatedPrompt |-> "P2",
                suggestions |-> <<>>]
Results == {ResultWithSuggestions, ResultPlain}

\* critique?.questions, or [] when there is none
QuestionsOf(c) ==
    IF c # NULL /\ "questions" \in DOMAIN c THEN c.questions ELSE <<>>

\* the ids of the QuestionCards rendered for a critique
QuestionIds(c) == {QuestionsOf(c)[i].id : i \in 1..Len(QuestionsOf(c))}

\* what a user types into an answer box
AnswerTexts == {<<"y">>}

ValidationMessage == "Please provide more detail."
\* data.error of a non-OK response, or the message of a thrown error
FailureMessages == {"Request failed"}

Kinds == {"critique", "generate", "regenerate", "implement"}
InFlightTotal == inflight["critique"] + inflight["generate"]
                 + inflight["regenerate"] + inflight["implement"]

\* resetTimeout is the time left on the pending setTimeout(..., 300) whose id
\* resetTimeoutRef.current holds, or NoTimer when it holds none that is pending
NoTimer == 0 - 1
DebounceMs == 300

Max(a, b) == IF a > b THEN a ELSE b

\* the setTimeout callbacks that have not run and were not cleared
PendingTimers == (IF resetTimeout # NoTimer THEN 1 ELSE 0) + Len(orphanTimers)

(***************************************************************************)
(* Home: initial state                                                     *)
(***************************************************************************)
SessionInit ==
    /\ entryMode = NoEntryMode
    /\ phase = "input"
    /\ selectedVendor = "claude"
    /\ selectedModel = "Sonnet 4.5"
    /\ inputText = EmptyText
    /\ problemContext = EmptyText
    /\ showProblemContext = FALSE
    /\ critique = NULL
    /\ answers = NoAnswers
    /\ result = NULL
    /\ isLoading = FALSE
    /\ error = ""
    /\ isRegenerating = FALSE
    /\ retryCount = 0
    /\ resetTimeout = NoTimer
    /\ inflight = [k \in Kinds |-> 0]
    /\ orphanTimers = <<>>
    /\ sinceEdit = 0
    /\ mounted = TRUE
    /\ isImplementingSuggestions = FALSE
    /\ implementRequest = NULL
    /\ clipboard = ""

(***************************************************************************)
(* Home: local handlers.  A handler is enabled when the element that       *)
(* invokes it is rendered and not disabled.                                *)
(***************************************************************************)
\* the state of the route and of the context builder, which no handler of
\* the page touches
serverVars == <<rateLimit, lastCleanup, now, acceptedLog, lastDecision,
                retired, entryLog,
                simpleRateLimit, simpleDecision, solo, soloDecision,
                ctxCritique, ctxAnswers, ctxOut,
                responseText, embedded, defect, parsed,
                stage, request, upstream, steps, response, consoleLog,
                previous, headers, clientId>>
\* the timers and the mount flag, which only the debounce and the unmount touch
timerVars == <<resetTimeout, orphanTimers, sinceEdit, mounted>>
\* the state only app/page.js has
pageVars == <<isImplementingSuggestions, implementRequest, clipboard>>
modelVars == <<selectedVendor, selectedModel>>
flagVars == <<isLoading, isRegenerating>>

\* the two entry-mode buttons: onClick={() => setEntryMode('idea' | 'prompt')}
SetEntryMode(m) ==
    /\ mounted
    /\ phase = "input" /\ entryMode = NoEntryMode
    /\ entryMode' = m
    /\ UNCHANGED <<phase, modelVars, inputText, problemContext, showProblemContext,
                   critique, answers, result, flagVars, error, retryCount,
                   timerVars, inflight,
                   serverVars, pageVars>>

\* the Change button: onClick={() => setEntryMode(null)}
ChangeEntryMode ==
    /\ mounted
    /\ phase = "input" /\ entryMode # NoEntryMode
    /\ entryMode' = NoEntryMode
    /\ UNCHANGED <<phase, modelVars, inputText, problemContext, showProblemContext,
                   critique, answers, result, flagVars, error, retryCount,
                   timerVars, inflight,
                   serverVars, pageVars>>

\* HandleInputChange that leaves a pending timer running (no clearTimeout,
\* no new timer)
HandleInputChangeKeepsTimer(text) ==
    /\ mounted
    /\ (phase = "input" => entryMode # NoEntryMode)
    /\ text # inputText
    /\ inputText' = text
    /\ IF phase # "input"
       THEN /\ resetTimeout' = IF resetTimeout # NoTimer THEN resetTimeout
                               ELSE DebounceMs
            /\ sinceEdit' = 0
       ELSE UNCHANGED <<resetTimeout, sinceEdit>>
    /\ UNCHANGED <<entryMode, phase, modelVars, problemContext, showProblemContext,
                   critique, answers, result, flagVars, error, retryCount, inflight,
                   orphanTimers, mounted, serverVars, pageVars>>

\* handleInputChange(text): the handler itself branches on phase, so it is
\* taken as callable in every phase (editInput of the session contract).
\* clearTimeout(resetTimeoutRef.current) drops the timer the ref holds and
\* the new setTimeout takes its place.
HandleInputChange(text) ==
    /\ mounted
    /\ (phase = "input" => entryMode # NoEntryMode)
    /\ text # inputText
    /\ inputText' = text
    /\ IF phase # "input"
       THEN /\ resetTimeout' = DebounceMs
            /\ sinceEdit' = 0
       ELSE UNCHANGED <<resetTimeout, sinceEdit>>
    /\ UNCHANGED <<entryMode, phase, modelVars, problemContext, showProblemContext,
                   critique, answers, result, flagVars, error, retryCount, inflight,
                   orphanTimers, mounted, serverVars, pageVars>>

\* time passes while a timer is pending: TickMs less is left on every timer
TimePasses ==
    /\ PendingTimers > 0
    /\ ~(resetTimeout <= 0 /\ \A i \in 1..Len(orphanTimers) : orphanTimers[i] = 0)
    /\ resetTimeout' = IF resetTimeout = NoTimer THEN NoTimer
                       ELSE Max(0, resetTimeout - TickMs)
    /\ orphanTimers' = [i \in 1..Len(orphanTimers) |->
                           Max(0, orphanTimers[i] - TickMs)]
    /\ sinceEdit' = IF sinceEdit + TickMs > DebounceMs THEN DebounceMs
                    ELSE sinceEdit + TickMs
    /\ UNCHANGED <<entryMode, phase, modelVars, inputText, problemContext,
                   showProblemContext, critique, answers, result, flagVars,
                   error, retryCount, inflight, mounted,
                   serverVars, pageVars>>

\* pending timers: 0 is the one resetTimeoutRef holds, the others are the
\* positions in orphanTimers
TimerIds == {0, 1, 2}

\* the time left on pending timer k
TimerLeft(k) == IF k = 0 THEN resetTimeout ELSE orphanTimers[k]

\* ResetTimeoutFires that resets error and retryCount as resetToStart does
ResetTimeoutFiresClearsError(k) ==
    /\ k \in 0..Len(orphanTimers)
    /\ TimerLeft(k) = 0
    /\ IF k = 0
       THEN /\ resetTimeout' = NoTimer
            /\ UNCHANGED orphanTimers
       ELSE /\ orphanTimers' = [i \in 1..(Len(orphanTimers) - 1) |->
                                   orphanTimers[IF i < k THEN i ELSE i + 1]]
            /\ UNCHANGED resetTimeout
    /\ sinceEdit' = IF PendingTimers = 1 THEN 0 ELSE sinceEdit
    /\ phase' = "input"
    /\ critique' = NULL
    /\ answers' = NoAnswers
    /\ result' = NULL
    /\ error' = ""
    /\ retryCount' = 0
    /\ UNCHANGED <<entryMode, modelVars, inputText, problemContext,
                   showProblemContext, flagVars, inflight,
                   mounted, serverVars, pageVars>>

\* the setTimeout callback of handleInputChange, run for the due timer k
ResetTimeoutFires(k) ==
    /\ k \in 0..Len(orphanTimers)
    /\ TimerLeft(k) = 0
    /\ IF k = 0
       THEN /\ resetTimeout' = NoTimer
            /\ UNCHANGED orphanTimers
       ELSE /\ orphanTimers' = [i \in 1..(Len(orphanTimers) - 1) |->
                                   orphanTimers[IF i < k THEN i ELSE i + 1]]
            /\ UNCHANGED resetTimeout
    /\ sinceEdit' = IF PendingTimers = 1 THEN 0 ELSE sinceEdit
    /\ phase' = "input"
    /\ critique' = NULL
    /\ answers' = NoAnswers
    /\ result' = NULL
    /\ UNCHANGED <<entryMode, modelVars, inputText, problemContext,
                   showProblemContext, flagVars, error, retryCount, inflight,
                   mounted, serverVars, pageVars>>

\* Unmount without the clearTimeout of the cleanup
UnmountKeepsTimer ==
    /\ mounted
    /\ mounted' = FALSE
    /\ UNCHANGED <<resetTimeout, orphanTimers, sinceEdit>>
    /\ entryMode' = NoEntryMode
    /\ phase' = "input"
    /\ selectedVendor' = "claude"
    /\ selectedModel' = "Sonnet 4.5"
    /\ inputText' = EmptyText
    /\ problemContext' = EmptyText
    /\ showProblemContext' = FALSE
    /\ critique' = NULL
    /\ answers' = NoAnswers
    /\ result' = NULL
    /\ isLoading' = FALSE
    /\ error' = ""
    /\ isRegenerating' = FALSE
    /\ retryCount' = 0
    /\ inflight' = [k \in Kinds |-> 0]
    /\ UNCHANGED <<serverVars, pageVars>>

\* the component unmounts: the effect cleanup clears the timer the ref holds.
\* The values of the hooks go with the component (they are put back to their
\* initial values here) and the responses of the calls still awaited reach
\* nothing; what outlives the component are the timers that were not cleared.
Unmount ==
    /\ mounted
    /\ mounted' = FALSE
    /\ resetTimeout' = NoTimer
    /\ UNCHANGED <<orphanTimers, sinceEdit>>
    /\ entryMode' = NoEntryMode
    /\ phase' = "input"
    /\ selectedVendor' = "claude"
    /\ selectedModel' = "Sonnet 4.5"
    /\ inputText' = EmptyText
    /\ problemContext' = EmptyText
    /\ showProblemContext' = FALSE
    /\ critique' = NULL
    /\ answers' = NoAnswers
    /\ result' = NULL
    /\ isLoading' = FALSE
    /\ error' = ""
    /\ isRegenerating' = FALSE
    /\ retryCount' = 0
    /\ inflight' = [k \in Kinds |-> 0]
    /\ UNCHANGED <<serverVars, pageVars>>

\* "+ Add context" button
ShowProblemContext ==
    /\ mounted
    /\ phase = "input" /\ entryMode = "prompt" /\ ~showProblemContext
    /\ showProblemContext' = TRUE
    /\ UNCHANGED <<entryMode, phase, modelVars, inputText, problemContext,
                   critique, answers, result, flagVars, error, retryCount,
                   timerVars, inflight,
                   serverVars, pageVars>>

\* "Remove" button
RemoveProblemContext ==
    /\ mounted
    /\ phase = "input" /\ entryMode = "prompt" /\ showProblemContext
    /\ showProblemContext' = FALSE
    /\ problemContext' = EmptyText
    /\ UNCHANGED <<entryMode, phase, modelVars, inputText,
                   critique, answers, result, flagVars, error, retryCount,
                   timerVars, inflight,
                   serverVars, pageVars>>

\* the problem-context textarea
SetProblemContext(text) ==
    /\ mounted
    /\ phase = "input" /\ entryMode = "prompt" /\ showProblemContext
    /\ text # problemContext
    /\ problemContext' = text
    /\ UNCHANGED <<entryMode, phase, modelVars, inputText, showProblemContext,
                   critique, answers, result, flagVars, error, retryCount,
                   timerVars, inflight,
                   serverVars, pageVars>>

\* ResetToStart without setAnswers({})
ResetToStartKeepsAnswers ==
    /\ mounted
    /\ phase \in {"critique", "result"}
    /\ phase' = "input"
    /\ entryMode' = NoEntryMode
    /\ critique' = NULL
    /\ result' = NULL
    /\ error' = ""
    /\ problemContext' = EmptyText
    /\ showProblemContext' = FALSE
    /\ retryCount' = 0
    /\ UNCHANGED <<modelVars, inputText, answers, flagVars, timerVars, inflight,
                   serverVars, pageVars>>

\* ResetToStart without setRetryCount(0)
ResetToStartKeepsRetryCount ==
    /\ mounted
    /\ phase \in {"critique", "result"}
    /\ phase' = "input"
    /\ entryMode' = NoEntryMode
    /\ critique' = NULL
    /\ answers' = NoAnswers
    /\ result' = NULL
    /\ error' = ""
    /\ problemContext' = EmptyText
    /\ showProblemContext' = FALSE
    /\ UNCHANGED <<modelVars, inputText, retryCount, flagVars, timerVars, inflight,
                   serverVars, pageVars>>

\* resetToStart, from the Start Over button
ResetToStart ==
    /\ mounted
    /\ phase \in {"critique", "result"}
    /\ phase' = "input"
    /\ entryMode' = NoEntryMode
    /\ critique' = NULL
    /\ answers' = NoAnswers
    /\ result' = NULL
    /\ error' = ""
    /\ problemContext' = EmptyText
    /\ showProblemContext' = FALSE
    /\ retryCount' = 0
    /\ UNCHANGED <<modelVars, inputText, flagVars, timerVars, inflight,
                   serverVars, pageVars>>

\* handleStartNew, from the Start New Prompt button of ResultDisplay
HandleStartNew ==
    /\ mounted
    /\ phase = "result" /\ result # NULL /\ ~isRegenerating
    /\ inputText' = EmptyText
    /\ phase' = "input"
    /\ entryMode' = NoEntryMode
    /\ critique' = NULL
    /\ answers' = NoAnswers
    /\ result' = NULL
    /\ error' = ""
    /\ problemContext' = EmptyText
    /\ showProblemContext' = FALSE
    /\ retryCount' = 0
    /\ UNCHANGED <<modelVars, flagVars, timerVars, inflight,
                   serverVars, pageVars>>

\* updateAnswer(questionId, value), from the textarea of a QuestionCard
UpdateAnswer(qid, value) ==
    /\ mounted
    /\ phase = "critique" /\ critique # NULL
    /\ qid \in QuestionIds(critique)
    /\ ~(qid \in DOMAIN answers /\ answers[qid] = value)
    /\ answers' = [q \in DOMAIN answers \cup {qid} |->
                      IF q = qid THEN value ELSE answers[q]]
    /\ UNCHANGED <<entryMode, phase, modelVars, inputText, problemContext,
                   showProblemContext, critique, result, flagVars, error,
                   retryCount, timerVars, inflight,
                   serverVars, pageVars>>

(***************************************************************************)
(* Home: the remote calls.  Each async handler is two steps: the part      *)
(* before the await (Run...) and the part after it (...Succeeds/...Fails), *)
(* which runs against whatever the state is when the response arrives.     *)
(***************************************************************************)
MinInputLength == 5

\* the retry link under the error box: {retryCount > 0 && retryCount < 3 && ...}
RetryOffered == error # "" /\ retryCount > 0 /\ retryCount < 3

\* another fetch may be started within the bounds of the model
MayStart == InFlightTotal < MaxInFlight /\ retryCount + InFlightTotal < MaxRetry

AddInFlight(k) == [inflight EXCEPT ![k] = @ + 1]
RemoveInFlight(k) == [inflight EXCEPT ![k] = @ - 1]

\* the Analyse button (disabled={isLoading || !inputText.trim()}) or the
\* Try again link of the input panel
RunCritiqueEnabled ==
    /\ phase = "input" /\ entryMode # NoEntryMode
    /\ \/ ~isLoading /\ Trim(inputText) # EmptyText
       \/ RetryOffered

\* InputTooShort measuring the text as typed
InputTooShortUntrimmed ==
    inputText = EmptyText \/ Len(inputText) < MinInputLength

\* runCritique rejects the input
InputTooShort == Trim(inputText) = EmptyText \/ Len(Trim(inputText)) < MinInputLength

\* runCritique, input rejected: setError and return
RunCritiqueRejected ==
    /\ mounted
    /\ RunCritiqueEnabled
    /\ InputTooShort
    /\ error' = ValidationMessage
    /\ UNCHANGED <<entryMode, phase, modelVars, inputText, problemContext,
                   showProblemContext, critique, answers, result, flagVars,
                   retryCount, timerVars, inflight,
                   serverVars, pageVars>>

\* runCritique up to the await of fetch
RunCritique ==
    /\ mounted
    /\ RunCritiqueEnabled
    /\ ~InputTooShort
    /\ MayStart
    /\ isLoading' = TRUE
    /\ error' = ""
    /\ inflight' = AddInFlight("critique")
    /\ UNCHANGED <<entryMode, phase, modelVars, inputText, problemContext,
                   showProblemContext, critique, answers, result,
                   isRegenerating, retryCount, timerVars,
                   serverVars, pageVars>>

\* CritiqueSucceeds without setRetryCount(0)
CritiqueSucceedsKeepsRetryCount(data) ==
    /\ inflight["critique"] > 0
    /\ inflight' = RemoveInFlight("critique")
    /\ critique' = data
    /\ answers' = NoAnswers
    /\ phase' = "critique"
    /\ isLoading' = FALSE
    /\ UNCHANGED <<entryMode, modelVars, inputText, problemContext,
                   showProblemContext, result, error, isRegenerating, retryCount,
                   timerVars, serverVars, pageVars>>

\* runCritique after the await, response.ok
CritiqueSucceeds(data) ==
    /\ inflight["critique"] > 0
    /\ inflight' = RemoveInFlight("critique")
    /\ critique' = data
    /\ answers' = NoAnswers
    /\ phase' = "critique"
    /\ retryCount' = 0
    /\ isLoading' = FALSE
    /\ UNCHANGED <<entryMode, modelVars, inputText, problemContext,
                   showProblemContext, result, error, isRegenerating, timerVars,
                   serverVars, pageVars>>

\* CritiqueFails without the finally block
CritiqueFailsKeepsLoading(msg) ==
    /\ inflight["critique"] > 0
    /\ inflight' = RemoveInFlight("critique")
    /\ error' = msg
    /\ retryCount' = retryCount + 1
    /\ UNCHANGED isLoading
    /\ UNCHANGED <<entryMode, phase, modelVars, inputText, problemContext,
                   showProblemContext, critique, answers, result,
                   isRegenerating, timerVars,
                   serverVars, pageVars>>

\* runCritique after the await, catch branch
CritiqueFails(msg) ==
    /\ inflight["critique"] > 0
    /\ inflight' = RemoveInFlight("critique")
    /\ error' = msg
    /\ retryCount' = retryCount + 1
    /\ isLoading' = FALSE
    /\ UNCHANGED <<entryMode, phase, modelVars, inputText, problemContext,
                   showProblemContext, critique, answers, result,
                   isRegenerating, timerVars,
                   serverVars, pageVars>>

\* the Generate button (disabled={isLoading}) or the Try again link of the
\* questions panel, rendered when phase is critique and critique is set
RunGenerateEnabled ==
    /\ phase = "critique" /\ critique # NULL
    /\ (~isLoading \/ RetryOffered)

\* runGenerate up to the await of fetch
RunGenerate ==
    /\ mounted
    /\ RunGenerateEnabled
    /\ MayStart
    /\ isLoading' = TRUE
    /\ error' = ""
    /\ inflight' = AddInFlight("generate")
    /\ UNCHANGED <<entryMode, phase, modelVars, inputText, problemContext,
                   showProblemContext, critique, answers, result,
                   isRegenerating, retryCount, timerVars,
                   serverVars, pageVars>>

\* GenerateSucceeds without setResult(data)
GenerateSucceedsNoResult(data) ==
    /\ inflight["generate"] > 0
    /\ inflight' = RemoveInFlight("generate")
    /\ phase' = "result"
    /\ retryCount' = 0
    /\ isLoading' = FALSE
    /\ UNCHANGED <<entryMode, modelVars, inputText, problemContext,
                   showProblemContext, critique, answers, result, error,
                   isRegenerating, timerVars, serverVars, pageVars>>

\* GenerateSucceeds that also empties answers
GenerateSucceedsClearsAnswers(data) ==
    /\ inflight["generate"] > 0
    /\ inflight' = RemoveInFlight("generate")
    /\ result' = data
    /\ answers' = NoAnswers
    /\ phase' = "result"
    /\ retryCount' = 0
    /\ isLoading' = FALSE
    /\ UNCHANGED <<entryMode, modelVars, inputText, problemContext,
                   showProblemContext, critique, error,
                   isRegenerating, timerVars, serverVars, pageVars>>

\* runGenerate after the await, response.ok
GenerateSucceeds(data) ==
    /\ inflight["generate"] > 0
    /\ inflight' = RemoveInFlight("generate")
    /\ result' = data
    /\ phase' = "result"
    /\ retryCount' = 0
    /\ isLoading' = FALSE
    /\ UNCHANGED <<entryMode, modelVars, inputText, problemContext,
                   showProblemContext, critique, answers, error,
                   isRegenerating, timerVars,
                   serverVars, pageVars>>

\* GenerateFails without the retryCount update, as regenerateForModel's catch
GenerateFailsNoCount(msg) ==
    /\ inflight["generate"] > 0
    /\ inflight' = RemoveInFlight("generate")
    /\ error' = msg
    /\ isLoading' = FALSE
    /\ UNCHANGED <<entryMode, phase, modelVars, inputText, problemContext,
                   showProblemContext, critique, answers, result,
                   isRegenerating, retryCount, timerVars, serverVars, pageVars>>

\* GenerateFails with the counter stopping at 3
GenerateFailsCapped(msg) ==
    /\ inflight["generate"] > 0
    /\ inflight' = RemoveInFlight("generate")
    /\ error' = msg
    /\ retryCount' = IF retryCount < 3 THEN retryCount + 1 ELSE retryCount
    /\ isLoading' = FALSE
    /\ UNCHANGED <<entryMode, phase, modelVars, inputText, problemContext,
                   showProblemContext, critique, answers, result,
                   isRegenerating, timerVars, serverVars, pageVars>>

\* runGenerate after the await, catch branch
GenerateFails(msg) ==
    /\ inflight["generate"] > 0
    /\ inflight' = RemoveInFlight("generate")
    /\ error' = msg
    /\ retryCount' = retryCount + 1
    /\ isLoading' = FALSE
    /\ UNCHANGED <<entryMode, phase, modelVars, inputText, problemContext,
                   showProblemContext, critique, answers, result,
                   isRegenerating, timerVars,
                   serverVars, pageVars>>

\* regenerateForModel(newVendor, newModel) up to the await of fetch
RegenerateForModel(newVendor, newModel) ==
    /\ MayStart
    /\ isRegenerating' = TRUE
    /\ selectedVendor' = newVendor
    /\ selectedModel' = newModel
    /\ error' = ""
    /\ inflight' = AddInFlight("regenerate")
    /\ UNCHANGED <<entryMode, phase, inputText, problemContext,
                   showProblemContext, critique, answers, result,
                   isLoading, retryCount, timerVars,
                   serverVars, pageVars>>

\* regenerateForModel after the await, response.ok
RegenerateSucceeds(data) ==
    /\ inflight["regenerate"] > 0
    /\ inflight' = RemoveInFlight("regenerate")
    /\ result' = data
    /\ isRegenerating' = FALSE
    /\ UNCHANGED <<entryMode, phase, modelVars, inputText, problemContext,
                   showProblemContext, critique, answers, isLoading, error,
                   retryCount, timerVars,
                   serverVars, pageVars>>

\* RegenerateFails that also drops the result on display
RegenerateFailsClearsResult(msg) ==
    /\ inflight["regenerate"] > 0
    /\ inflight' = RemoveInFlight("regenerate")
    /\ error' = msg
    /\ result' = NULL
    /\ isRegenerating' = FALSE
    /\ UNCHANGED <<entryMode, phase, modelVars, inputText, problemContext,
                   showProblemContext, critique, answers, isLoading,
                   retryCount, timerVars,
                   serverVars, pageVars>>

\* regenerateForModel after the await, catch branch
RegenerateFails(msg) ==
    /\ inflight["regenerate"] > 0
    /\ inflight' = RemoveInFlight("regenerate")
    /\ error' = msg
    /\ isRegenerating' = FALSE
    /\ UNCHANGED <<entryMode, phase, modelVars, inputText, problemContext,
                   showProblemContext, critique, answers, result, isLoading,
                   retryCount, timerVars,
                   serverVars, pageVars>>

\* SelectorEnabled without the test of isRegenerating
SelectorIgnoresRegenerating == phase # "critique"

\* ModelSelector: isDisabled = phase === 'critique' || isRegenerating
SelectorEnabled == phase # "critique" /\ ~isRegenerating

\* HandleVendorChange that leaves the model alone in phase input
HandleVendorChangeKeepsModel(vendor) ==
    /\ mounted
    /\ SelectorEnabled
    /\ IF phase = "result"
       THEN RegenerateForModel(vendor, Models(vendor)[1])
       ELSE /\ selectedVendor' = vendor
            /\ UNCHANGED <<entryMode, phase, selectedModel, inputText,
                           problemContext, showProblemContext, critique,
                           answers, result, flagVars, error, retryCount,
                           timerVars, inflight, serverVars, pageVars>>

\* handleVendorChange(vendor), from a vendor button
HandleVendorChange(vendor) ==
    /\ mounted
    /\ SelectorEnabled
    /\ IF phase = "result"
       THEN RegenerateForModel(vendor, Models(vendor)[1])
       ELSE /\ selectedVendor' = vendor
            /\ selectedModel' = Models(vendor)[1]
            /\ UNCHANGED <<entryMode, phase, inputText, problemContext,
                           showProblemContext, critique, answers, result,
                           flagVars, error, retryCount, timerVars, inflight,
                           serverVars, pageVars>>

\* handleModelChange(model), from the variant select, whose options are the
\* models of the selected vendor
HandleModelChange(model) ==
    /\ mounted
    /\ SelectorEnabled
    /\ model \in Range(Models(selectedVendor))
    /\ model # selectedModel
    /\ IF phase = "result"
       THEN RegenerateForModel(selectedVendor, model)
       ELSE /\ selectedModel' = model
            /\ UNCHANGED <<entryMode, phase, selectedVendor, inputText,
                           problemContext, showProblemContext, critique, answers,
                           result, flagVars, error, retryCount, timerVars, inflight,
                           serverVars, pageVars>>

SessionNext ==
    \/ \E m \in EntryModes : SetEntryMode(m)
    \/ ChangeEntryMode
    \/ \E text \in InputTexts : HandleInputChange(text)
    \/ TimePasses
    \/ \E k \in TimerIds : ResetTimeoutFires(k)
    \/ Unmount
    \/ ShowProblemContext
    \/ RemoveProblemContext
    \/ \E text \in ProblemTexts : SetProblemContext(text)
    \/ ResetToStart
    \/ HandleStartNew
    \/ \E qid \in {"q1", "q2"}, value \in AnswerTexts : UpdateAnswer(qid, value)
    \/ RunCritiqueRejected
    \/ RunCritique
    \/ \E data \in Critiques : CritiqueSucceeds(data)
    \/ \E msg \in FailureMessages : CritiqueFails(msg)
    \/ RunGenerate
    \/ \E data \in Results : GenerateSucceeds(data)
    \/ \E msg \in FailureMessages : GenerateFails(msg)
    \/ \E vendor \in Vendors : HandleVendorChange(vendor)
    \/ \E model \in AllModels : HandleModelChange(model)
    \/ \E data \in Results : RegenerateSucceeds(data)
    \/ \E msg \in FailureMessages : RegenerateFails(msg)

(***************************************************************************)
(* route: sliding-window rate limiter (ring buffer) and lazy cleanup       *)
(***************************************************************************)
\* RATE_LIMIT_MAX is 20 in the source; the model runs the same code with a
\* ring of this capacity.
RATE_LIMIT_MAX == 3
RATE_LIMIT_WINDOW == 60 * 1000
CLEANUP_INTERVAL == RATE_LIMIT_WINDOW * 2

ClockStep == 20000     \* the clock advances in steps of this many ms
MaxClockSteps == 7     \* the clock stops after this many steps
MaxAccepted == 5       \* accepted requests recorded in a run
MaxHalfWindows == 8    \* half windows the clock of a long run goes through

\* the identities getClientIdentifier resolves the requests to
Clients == {"10.0.0.1", "10.0.0.2"}

Min(a, b) == IF a < b THEN a ELSE b

\* checkRateLimit: the entry created for an unknown ip
NewEntry == [timestamps |-> [i \in 0..(RATE_LIMIT_MAX - 1) |-> 0],
             head |-> 0, count |-> 0]

\* index of the i-th valid slot, oldest first
SlotIndex(entry, i) ==
    (entry.head - entry.count + i + RATE_LIMIT_MAX) % RATE_LIMIT_MAX

\* checkRateLimit: the quick check on the oldest slot
AtLimitQuick(entry, windowStart) ==
    /\ entry.count >= RATE_LIMIT_MAX
    /\ entry.timestamps[SlotIndex(entry, 0)] > windowStart

\* checkRateLimit: validCount after the scan of the valid slots
ValidCount(entry, windowStart) ==
    Cardinality({i \in 0..(entry.count - 1) :
                    entry.timestamps[SlotIndex(entry, i)] > windowStart})

\* checkRateLimit: the value returned for an entry at time t
Allows(entry, t) ==
    /\ ~AtLimitQuick(entry, t - RATE_LIMIT_WINDOW)
    /\ ValidCount(entry, t - RATE_LIMIT_WINDOW) < RATE_LIMIT_MAX

\* Recorded with the head left where it was
RecordedHeadStuck(entry, t) ==
    [timestamps |-> [entry.timestamps EXCEPT ![entry.head] = t],
     head |-> entry.head,
     count |-> Min(entry.count + 1, RATE_LIMIT_MAX)]

\* Recorded with count never capped
RecordedUncapped(entry, t) ==
    [timestamps |-> [entry.timestamps EXCEPT ![entry.head] = t],
     head |-> (entry.head + 1) % RATE_LIMIT_MAX,
     count |-> entry.count + 1]

\* checkRateLimit: the request written into the ring
Recorded(entry, t) ==
    [timestamps |-> [entry.timestamps EXCEPT ![entry.head] = t],
     head |-> (entry.head + 1) % RATE_LIMIT_MAX,
     count |-> Min(entry.count + 1, RATE_LIMIT_MAX)]

\* maybeCleanup: an entry keeps a timestamp inside the window
HasValid(entry, windowStart) ==
    \E i \in 0..(entry.count - 1) :
        entry.timestamps[SlotIndex(entry, i)] > windowStart

\* CleanupDue with the sweep due a window after the one before
CleanupDueAfterWindow(t) == ~(t - lastCleanup < RATE_LIMIT_WINDOW)

\* maybeCleanup: the sweep is due
CleanupDue(t) == ~(t - lastCleanup < CLEANUP_INTERVAL)

\* Cleaned with nothing deleted
CleanedKeepsStale(map, t) == map

\* maybeCleanup: the map after the call at time t
Cleaned(map, t) ==
    IF CleanupDue(t)
    THEN [ip \in {c \in DOMAIN map : HasValid(map[c], t - RATE_LIMIT_WINDOW)}
             |-> map[ip]]
    ELSE map

\* Checked that writes the refused requests into the ring as well
CheckedRecordsRefused(map, ip, t) ==
    LET entry == IF ip \in DOMAIN map THEN map[ip] ELSE NewEntry
    IN  [c \in DOMAIN map \cup {ip} |->
            IF c = ip THEN Recorded(entry, t) ELSE map[c]]

\* checkRateLimit(ip) on a map at time t: the map it leaves
Checked(map, ip, t) ==
    LET entry == IF ip \in DOMAIN map THEN map[ip] ELSE NewEntry
        after == IF Allows(entry, t) THEN Recorded(entry, t) ELSE entry
    IN  [c \in DOMAIN map \cup {ip} |-> IF c = ip THEN after ELSE map[c]]

\* Decision that also refuses while any other identity is at the limit
DecisionAnyAtLimit(map, ip, t) ==
    /\ Allows(IF ip \in DOMAIN map THEN map[ip] ELSE NewEntry, t)
    /\ \A c \in DOMAIN map : Allows(map[c], t)

\* checkRateLimit(ip) on a map at time t: the value it returns
Decision(map, ip, t) ==
    Allows(IF ip \in DOMAIN map THEN map[ip] ELSE NewEntry, t)

NoDecision == [ip |-> "none", at |-> 0, allowed |-> FALSE]

\* the requests accepted since the entries were created, after a call of
\* POST at time t for ip that found the map swept and was answered ok
Logged(log, swept, ip, t, ok) ==
    [c \in DOMAIN swept \cup {ip} |->
        IF c # ip THEN log[c]
        ELSE (IF ip \in DOMAIN swept THEN log[ip] ELSE <<>>)
                 \o (IF ok THEN <<t>> ELSE <<>>)]
RECURSIVE TotalLen(_, _)
TotalLen(log, ips) ==
    IF ips = {} THEN 0
    ELSE LET ip == CHOOSE c \in ips : TRUE
         IN  Len(log[ip]) + TotalLen(log, ips \ {ip})
TotalAccepted == TotalLen(acceptedLog, Clients)

RateInit ==
    /\ rateLimit = [ip \in {} |-> NewEntry]
    /\ lastCleanup = 0
    /\ now = 0
    /\ acceptedLog = [c \in Clients |-> <<>>]
    /\ lastDecision = NoDecision
    /\ retired = {}
    /\ entryLog = [ip \in {} |-> <<>>]

\* Date.now() moves on
AdvanceClock ==
    /\ now + ClockStep <= MaxClockSteps * ClockStep
    /\ now' = now + ClockStep
    /\ UNCHANGED <<rateLimit, lastCleanup, acceptedLog, lastDecision, retired,
                   entryLog, sessionVars, ctxVars, extractVars, routeVars,
                   identVars, compareVars>>

\* POST up to the rate-limit gate: maybeCleanup(), then
\* checkRateLimit(getClientIdentifier(request))
Post(ip) ==
    LET swept == Cleaned(rateLimit, now)
        ok == Decision(swept, ip, now)
    IN  /\ TotalAccepted < MaxAccepted
        /\ lastCleanup' = IF CleanupDue(now) THEN now ELSE lastCleanup
        /\ rateLimit' = Checked(swept, ip, now)
        /\ lastDecision' = [ip |-> ip, at |-> now, allowed |-> ok]
        /\ acceptedLog' = IF ok THEN [acceptedLog EXCEPT ![ip] = Append(@, now)]
                          ELSE acceptedLog
        /\ entryLog' = Logged(entryLog, swept, ip, now, ok)
        /\ UNCHANGED <<now, retired, sessionVars, ctxVars, extractVars,
                       routeVars, identVars, compareVars>>

\* the same call of POST, for an identity that still sends requests, with
\* no record kept of the accepted requests
PostUnlogged(ip) ==
    LET swept == Cleaned(rateLimit, now)
        ok == Decision(swept, ip, now)
    IN  /\ ip \notin retired
        /\ lastCleanup' = IF CleanupDue(now) THEN now ELSE lastCleanup
        /\ rateLimit' = Checked(swept, ip, now)
        /\ lastDecision' = [ip |-> ip, at |-> now, allowed |-> ok]
        /\ UNCHANGED <<now, acceptedLog, retired, entryLog, sessionVars, ctxVars,
                       extractVars, routeVars, identVars, compareVars>>

\* an identity with an entry sends its last request; some other identity
\* goes on sending
Retire(ip) ==
    /\ ip \in DOMAIN rateLimit
    /\ ip \notin retired
    /\ retired \cup {ip} # Clients
    /\ retired' = retired \cup {ip}
    /\ UNCHANGED <<rateLimit, lastCleanup, now, acceptedLog, lastDecision,
                   entryLog, sessionVars, ctxVars, extractVars, routeVars,
                   identVars, compareVars>>

\* Date.now() moves on by half a window, up to the same time as AdvanceClock
HalfWindowPasses ==
    /\ now + RATE_LIMIT_WINDOW \div 2 <= MaxClockSteps * ClockStep
    /\ now' = now + RATE_LIMIT_WINDOW \div 2
    /\ UNCHANGED <<rateLimit, lastCleanup, acceptedLog, lastDecision, retired,
                   entryLog, sessionVars, ctxVars, extractVars, routeVars,
                   identVars, compareVars>>

\* Date.now() moves on by half a window, for as long as several sweeps take
LongTimePasses ==
    /\ now + RATE_LIMIT_WINDOW \div 2 <= MaxHalfWindows * (RATE_LIMIT_WINDOW \div 2)
    /\ now' = now + RATE_LIMIT_WINDOW \div 2
    /\ UNCHANGED <<rateLimit, lastCleanup, acceptedLog, lastDecision, retired,
                   entryLog, sessionVars, ctxVars, extractVars, routeVars,
                   identVars, compareVars>>

LongRunNext ==
    \/ LongTimePasses
    \/ \E ip \in Clients : PostUnlogged(ip)

SweepNext ==
    \/ HalfWindowPasses
    \/ \E ip \in Clients : PostUnlogged(ip)
    \/ \E ip \in Clients : Retire(ip)

RateNext ==
    \/ AdvanceClock
    \/ \E ip \in Clients : Post(ip)

(***************************************************************************)
(* app/api/analyse/route.js: the rate limiter that rescans the whole list  *)
(* of an identity's requests, and its cleanup on a timer                   *)
(***************************************************************************)
\* Filtered that keeps the request made exactly a window ago
FilteredInclusive(reqs, windowStart) ==
    SelectSeq(reqs, LAMBDA time : time >= windowStart)

\* entry.requests.filter(time => time > windowStart)
Filtered(reqs, windowStart) ==
    SelectSeq(reqs, LAMBDA time : time > windowStart)

\* checkRateLimit: the entry created for an unknown ip
SimpleNewEntry == [requests |-> <<>>]

\* checkRateLimit: the value returned for an entry at time t
SimpleAllows(entry, t) ==
    ~(Len(Filtered(entry.requests, t - RATE_LIMIT_WINDOW)) >= RATE_LIMIT_MAX)

\* checkRateLimit(ip) on a map at time t: the map it leaves
SimpleChecked(map, ip, t) ==
    LET entry == IF ip \in DOMAIN map THEN map[ip] ELSE SimpleNewEntry
        kept == Filtered(entry.requests, t - RATE_LIMIT_WINDOW)
        after == [requests |-> IF SimpleAllows(entry, t) THEN Append(kept, t)
                               ELSE kept]
    IN  [c \in DOMAIN map \cup {ip} |-> IF c = ip THEN after ELSE map[c]]

\* checkRateLimit(ip) on a map at time t: the value it returns
SimpleDecision(map, ip, t) ==
    SimpleAllows(IF ip \in DOMAIN map THEN map[ip] ELSE SimpleNewEntry, t)

\* the setInterval callback: the map it leaves at time t
SimpleCleaned(map, t) ==
    LET kept(c) == Filtered(map[c].requests, t - RATE_LIMIT_WINDOW)
    IN  [ip \in {c \in DOMAIN map : Len(kept(c)) # 0} |->
            [requests |-> kept(ip)]]

(***************************************************************************)
(* route: the limiter of a server that one identity has to itself          *)
(***************************************************************************)
\* the module as loaded: an empty map, lastCleanup = Date.now()
SoloLoaded == [rateLimit |-> [ip \in {} |-> NewEntry], lastCleanup |-> 0]

\* maybeCleanup at time t on the state st of such a server
SoloCleaned(st, t) ==
    IF t - st.lastCleanup < CLEANUP_INTERVAL THEN st
    ELSE [rateLimit |->
              [ip \in {c \in DOMAIN st.rateLimit :
                          HasValid(st.rateLimit[c], t - RATE_LIMIT_WINDOW)}
                  |-> st.rateLimit[ip]],
          lastCleanup |-> t]

\* POST up to the rate-limit gate at time t on the state st of such a server
SoloPosted(st, ip, t) ==
    [rateLimit |-> Checked(SoloCleaned(st, t).rateLimit, ip, t),
     lastCleanup |-> SoloCleaned(st, t).lastCleanup]

\* ... and what checkRateLimit returns there
SoloDecision(st, ip, t) == Decision(SoloCleaned(st, t).rateLimit, ip, t)

CompareInit ==
    /\ simpleRateLimit = [ip \in {} |-> SimpleNewEntry]
    /\ simpleDecision = NoDecision
    /\ solo = [ip \in Clients |-> SoloLoaded]
    /\ soloDecision = NoDecision

\* one request at time now given to the three servers: POST up to the
\* rate-limit gate on the ring buffer, checkRateLimit of the full-rescan
\* limiter, and POST up to the gate on the server ip has to itself
PostCompared(ip) ==
    LET swept == Cleaned(rateLimit, now)
        ok == Decision(swept, ip, now)
    IN  /\ TotalAccepted < MaxAccepted
        /\ lastCleanup' = IF CleanupDue(now) THEN now ELSE lastCleanup
        /\ rateLimit' = Checked(swept, ip, now)
        /\ lastDecision' = [ip |-> ip, at |-> now, allowed |-> ok]
        /\ acceptedLog' = IF ok THEN [acceptedLog EXCEPT ![ip] = Append(@, now)]
                          ELSE acceptedLog
        /\ entryLog' = Logged(entryLog, swept, ip, now, ok)
        /\ simpleRateLimit' = SimpleChecked(simpleRateLimit, ip, now)
        /\ simpleDecision' =
               [ip |-> ip, at |-> now,
                allowed |-> SimpleDecision(simpleRateLimit, ip, now)]
        /\ solo' = [solo EXCEPT ![ip] = SoloPosted(@, ip, now)]
        /\ soloDecision' =
               [ip |-> ip, at |-> now,
                allowed |-> SoloDecision(solo[ip], ip, now)]
        /\ UNCHANGED <<now, retired, sessionVars, ctxVars, extractVars,
                       routeVars, identVars>>

\* the setInterval callback of the full-rescan limiter runs
IntervalCleanup ==
    /\ simpleRateLimit' = SimpleCleaned(simpleRateLimit, now)
    /\ UNCHANGED <<simpleDecision, solo, soloDecision, rateVars, sessionVars,
                   ctxVars, extractVars, routeVars, identVars>>

CompareNext ==
    \/ AdvanceClock
    \/ \E ip \in Clients : PostCompared(ip)
    \/ IntervalCleanup

(***************************************************************************)
(* Home: buildAdditionalContext(critique, answers)                         *)
(***************************************************************************)
\* IsAnswered without the trim
IsAnsweredUntrimmed(q, ans) == q.id \in DOMAIN ans /\ ans[q.id] # EmptyText

\* answers[q.id]?.trim() is truthy
IsAnswered(q, ans) == q.id \in DOMAIN ans /\ Trim(ans[q.id]) # EmptyText

\* `Q: ${q.question}\nA: ${answers[q.id]}`
Block(q, ans) ==
    <<"Q", ":", " ">> \o q.question \o <<"\n", "A", ":", " ">> \o ans[q.id]

\* Array.prototype.join('\n\n')
RECURSIVE JoinBlocks(_)
JoinBlocks(blocks) ==
    IF blocks = <<>> THEN <<>>
    ELSE IF Len(blocks) = 1 THEN blocks[1]
    ELSE blocks[1] \o <<"\n", "\n">> \o JoinBlocks(Tail(blocks))

buildAdditionalContext(c, ans) ==
    LET answeredQuestions == SelectSeq(QuestionsOf(c), LAMBDA q : IsAnswered(q, ans))
    IN  IF Len(answeredQuestions) = 0 THEN <<>>
        ELSE JoinBlocks([i \in 1..Len(answeredQuestions) |->
                            Block(answeredQuestions[i], ans)])

NotBuilt == <<"?">>

\* arguments the function is applied to
CtxIds == {"q1", "q2", "q3"}
CtxAnswerTexts == {<<>>, <<" ">>, <<"y">>, <<" ", "n", " ">>}
CritiqueNoQuestions == [tag |-> "critique", name |-> "N"]
CritiqueC == [tag |-> "critique", name |-> "C",
              questions |-> <<Question("q2", <<"H">>), Question("q1", <<"W">>),
                              Question("q3", <<"T">>)>>]
CtxCritiques == {NULL, CritiqueNoQuestions, CritiqueA, CritiqueB, CritiqueC}

CtxInit ==
    /\ ctxCritique \in CtxCritiques
    /\ \E ids \in SUBSET CtxIds : ctxAnswers \in [ids -> CtxAnswerTexts]
    /\ ctxOut = NotBuilt

\* runGenerate / regenerateForModel: const additionalContext = ...
BuildContext ==
    /\ ctxOut = NotBuilt
    /\ ctxOut' = buildAdditionalContext(ctxCritique, ctxAnswers)
    /\ UNCHANGED <<ctxCritique, ctxAnswers, sessionVars, rateVars, extractVars,
                   routeVars, identVars, compareVars>>

(***************************************************************************)
(* Home of app/page.js.  Its entry, problem-context, answer, reset, critique,*)
(* generate and regenerate handlers and their buttons are the ones above;  *)
(* these are the handlers it does not share with the page above.           *)
(***************************************************************************)
\* handleInputChange(text) of app/page.js: the reset is immediate
HandleInputChangeImmediate(text) ==
    /\ mounted
    /\ (phase = "input" => entryMode # NoEntryMode)
    /\ text # inputText
    /\ inputText' = text
    /\ IF phase # "input"
       THEN /\ phase' = "input"
            /\ critique' = NULL
            /\ answers' = NoAnswers
            /\ result' = NULL
       ELSE UNCHANGED <<phase, critique, answers, result>>
    /\ UNCHANGED <<entryMode, modelVars, problemContext, showProblemContext,
                   flagVars, error, retryCount, inflight, timerVars,
                   serverVars, pageVars>>

\* the Copy button (disabled={isRegenerating}):
\* copyToClipboard(result.generatedPrompt)
CopyToClipboard ==
    /\ mounted
    /\ phase = "result" /\ result # NULL /\ ~isRegenerating
    /\ clipboard' = result.generatedPrompt
    /\ UNCHANGED <<entryMode, phase, modelVars, inputText, problemContext,
                   showProblemContext, critique, answers, result, flagVars,
                   error, retryCount, inflight, timerVars, serverVars,
                   isImplementingSuggestions, implementRequest>>

Digits == <<"0", "1", "2", "3", "4", "5", "6", "7", "8", "9">>

\* a number as template literals print it
RECURSIVE NumberText(_)
NumberText(n) ==
    IF n < 10 THEN <<Digits[n + 1]>>
    ELSE NumberText(n \div 10) \o <<Digits[(n % 10) + 1]>>

\* SuggestionLine printing the index as it is
SuggestionLineFromZero(i, s) == NumberText(i) \o <<".", " ", s>>

\* `${i + 1}. ${s}` for the suggestion s at index i
SuggestionLine(i, s) == NumberText(i + 1) \o <<".", " ", s>>

\* Array.prototype.join('\n')
RECURSIVE JoinLines(_)
JoinLines(lines) ==
    IF lines = <<>> THEN <<>>
    ELSE IF Len(lines) = 1 THEN lines[1]
    ELSE lines[1] \o <<"\n">> \o JoinLines(Tail(lines))

\* suggestionsContext; a suggestion is one piece of the text
SuggestionsContext(suggestions) ==
    <<"\n", "\n", "Please also implement these improvements:", "\n">>
    \o JoinLines([i \in 1..Len(suggestions) |->
                     SuggestionLine(i - 1, suggestions[i])])

\* result.suggestions && result.suggestions.length > 0
HasSuggestions(r) ==
    r # NULL /\ "suggestions" \in DOMAIN r /\ Len(r.suggestions) > 0

\* the implement-suggestions button, rendered in phase result under a result
\* with suggestions: disabled={isImplementingSuggestions || isRegenerating}
ImplementButtonEnabled ==
    /\ phase = "result" /\ HasSuggestions(result)
    /\ ~(isImplementingSuggestions \/ isRegenerating)

\* implementSuggestions up to the await of fetch
ImplementSuggestions ==
    /\ mounted
    /\ ImplementButtonEnabled
    /\ HasSuggestions(result)
    /\ MayStart
    /\ isImplementingSuggestions' = TRUE
    /\ error' = ""
    /\ implementRequest' =
           [mode |-> "generate",
            vendor |-> selectedVendor,
            model |-> selectedModel,
            inputText |-> Trim(inputText),
            additionalContext |->
                buildAdditionalContext(critique, answers)
                \o SuggestionsContext(result.suggestions)]
    /\ inflight' = AddInFlight("implement")
    /\ UNCHANGED <<entryMode, phase, modelVars, inputText, problemContext,
                   showProblemContext, critique, answers, result, flagVars,
                   retryCount, timerVars, serverVars, clipboard>>

\* implementSuggestions after the await, response.ok
ImplementSucceeds(data) ==
    /\ inflight["implement"] > 0
    /\ inflight' = RemoveInFlight("implement")
    /\ result' = data
    /\ isImplementingSuggestions' = FALSE
    /\ implementRequest' = NULL
    /\ UNCHANGED <<entryMode, phase, modelVars, inputText, problemContext,
                   showProblemContext, critique, answers, flagVars, error,
                   retryCount, timerVars, serverVars, clipboard>>

\* implementSuggestions after the await, catch branch
ImplementFails(msg) ==
    /\ inflight["implement"] > 0
    /\ inflight' = RemoveInFlight("implement")
    /\ error' = msg
    /\ isImplementingSuggestions' = FALSE
    /\ implementRequest' = NULL
    /\ UNCHANGED <<entryMode, phase, modelVars, inputText, problemContext,
                   showProblemContext, critique, answers, result, flagVars,
                   retryCount, timerVars, serverVars, clipboard>>

\* the inputs of the page of app/page.js that are tried: the entry mode
\* 'idea' (the problem-context box belongs to 'prompt'), a text that is too
\* short and one that is not, and the critique with one question
PageEntryModes == {"idea"}
PageInputTexts == {FourCharText, FiveCharText}
PageCritiques == {CritiqueA}

PageNext ==
    \/ \E m \in PageEntryModes : SetEntryMode(m)
    \/ ChangeEntryMode
    \/ \E text \in PageInputTexts : HandleInputChangeImmediate(text)
    \/ ResetToStart
    \/ HandleStartNew
    \/ \E qid \in QuestionIds(CritiqueA), value \in AnswerTexts :
           UpdateAnswer(qid, value)
    \/ RunCritiqueRejected
    \/ RunCritique
    \/ \E data \in PageCritiques : CritiqueSucceeds(data)
    \/ \E msg \in FailureMessages : CritiqueFails(msg)
    \/ RunGenerate
    \/ \E data \in Results : GenerateSucceeds(data)
    \/ \E msg \in FailureMessages : GenerateFails(msg)
    \/ \E vendor \in Vendors : HandleVendorChange(vendor)
    \/ \E model \in AllModels : HandleModelChange(model)
    \/ \E data \in Results : RegenerateSucceeds(data)
    \/ \E msg \in FailureMessages : RegenerateFails(msg)
    \/ CopyToClipboard
    \/ ImplementSuggestions
    \/ \E data \in Results : ImplementSucceeds(data)
    \/ \E msg \in FailureMessages : ImplementFails(msg)

(***************************************************************************)
(* route: the JSON object is extracted from the model's text.  Positions   *)
(* are counted from 1 and 0 stands for "not found" (0 and -1 in the code). *)
(***************************************************************************)
MatchesAt(s, pat, i) ==
    /\ i >= 1
    /\ i + Len(pat) - 1 <= Len(s)
    /\ SubSeq(s, i, i + Len(pat) - 1) = pat

\* String.prototype.indexOf(pat, from)
IndexOf(s, pat, from) ==
    LET hits == {i \in from..Len(s) : MatchesAt(s, pat, i)}
    IN  IF hits = {} THEN 0 ELSE CHOOSE i \in hits : \A j \in hits : i <= j

\* String.prototype.lastIndexOf(pat)
LastIndexOf(s, pat) ==
    LET hits == {i \in 1..Len(s) : MatchesAt(s, pat, i)}
    IN  IF hits = {} THEN 0 ELSE CHOOSE i \in hits : \A j \in hits : j <= i

\* String.prototype.startsWith(pat)
StartsWith(s, pat) == MatchesAt(s, pat, 1)

\* the grave accent (U+0060), which no string of a module can hold, is
\* written as a character of its own
Backtick == "U+0060"
Fence == <<Backtick, Backtick, Backtick>>
JsonLabel == <<"j", "s", "o", "n">>

\* jsonStr after the check for a markdown code block
CodeBlockContent(text) ==
    LET codeBlockStart == IndexOf(text, Fence, 1)
        codeBlockEnd == IndexOf(text, Fence, codeBlockStart + 3)
        inner == SubSeq(text, codeBlockStart + 3, codeBlockEnd - 1)
    IN  IF codeBlockStart = 0 THEN text
        ELSE IF codeBlockEnd = 0 THEN text
        ELSE IF StartsWith(inner, JsonLabel) THEN SubSeq(inner, 5, Len(inner))
        ELSE inner

\* \s* of the two cleanup patterns: the first position from i on that holds
\* no whitespace
RECURSIVE SkipSpaces(_, _)
SkipSpaces(s, i) ==
    IF i <= Len(s) /\ IsSpace(s[i]) THEN SkipSpaces(s, i + 1) ELSE i

\* .replace(/,\s*}/g, '}') and .replace(/,\s*]/g, ']'), from position i on
RECURSIVE DropCommaBefore(_, _, _)
DropCommaBefore(s, closer, i) ==
    IF i > Len(s) THEN <<>>
    ELSE LET j == SkipSpaces(s, i + 1)
         IN  IF s[i] = "," /\ j <= Len(s) /\ s[j] = closer
             THEN <<closer>> \o DropCommaBefore(s, closer, j + 1)
             ELSE <<s[i]>> \o DropCommaBefore(s, closer, i + 1)

\* the values JSON.parse returns
JNum(n) == [tag |-> "number", v |-> n]
JStr(t) == [tag |-> "string", v |-> t]
JArr(items) == [tag |-> "array", v |-> items]
JObj(members) == [tag |-> "object", v |-> members]
NoMembers == [k \in {} |-> JNum(0)]

\* a later member of the same name replaces the earlier one
WithMember(members, k, val) ==
    [x \in DOMAIN members \cup {k} |-> IF x = k THEN val ELSE members[x]]

IsDigit(ch) == ch \in Range(Digits)
DigitValue(ch) == CHOOSE d \in 0..9 : Digits[d + 1] = ch

\* JSON.parse, for objects, arrays, strings without escapes and unsigned
\* integers: the value read from position i and the position after it
NotRead == [ok |-> FALSE]
Read(val, next) == [ok |-> TRUE, val |-> val, next |-> next]

RECURSIVE ReadDigits(_, _, _)
ReadDigits(s, i, acc) ==
    IF i <= Len(s) /\ IsDigit(s[i])
    THEN ReadDigits(s, i + 1, acc * 10 + DigitValue(s[i]))
    ELSE Read(JNum(acc), i)

\* a number: 0, or digits that do not start with 0
ReadNumber(s, i) ==
    IF s[i] = "0" THEN Read(JNum(0), i + 1) ELSE ReadDigits(s, i, 0)

\* a string: from the quote at i to the next quote, no line break inside
ReadString(s, i) ==
    LET close == IndexOf(s, <<"\"">>, i + 1)
    IN  IF close = 0 THEN NotRead
        ELSE IF \E j \in (i + 1)..(close - 1) : s[j] \in {"\n", "\t"}
        THEN NotRead
        ELSE Read(JStr(SubSeq(s, i + 1, close - 1)), close + 1)

RECURSIVE ReadValue(_, _)
RECURSIVE ReadMembers(_, _, _)
RECURSIVE ReadElements(_, _, _)

\* the members of an object, from the first character of a member on
ReadMembers(s, i, members) ==
    IF i > Len(s) THEN NotRead
    ELSE IF s[i] # "\"" THEN NotRead
    ELSE LET name == ReadString(s, i)
         IN  IF ~name.ok THEN NotRead
             ELSE LET colon == SkipSpaces(s, name.next)
                  IN  IF colon > Len(s) THEN NotRead
                      ELSE IF s[colon] # ":" THEN NotRead
                      ELSE LET val == ReadValue(s, colon + 1)
                           IN  IF ~val.ok THEN NotRead
                               ELSE LET after == SkipSpaces(s, val.next)
                                        all == WithMember(members, name.val.v,
                                                          val.val)
                                    IN  IF after > Len(s) THEN NotRead
                                        ELSE IF s[after] = "}"
                                        THEN Read(JObj(all), after + 1)
                                        ELSE IF s[after] = ","
                                        THEN ReadMembers(s, SkipSpaces(s, after + 1),
                                                         all)
                                        ELSE NotRead

\* the elements of an array, from the first character of an element on
ReadElements(s, i, items) ==
    LET val == ReadValue(s, i)
    IN  IF ~val.ok THEN NotRead
        ELSE LET after == SkipSpaces(s, val.next)
                 all == Append(items, val.val)
             IN  IF after > Len(s) THEN NotRead
                 ELSE IF s[after] = "]" THEN Read(JArr(all), after + 1)
                 ELSE IF s[after] = "," THEN ReadElements(s, after + 1, all)
                 ELSE NotRead

ReadValue(s, from) ==
    LET i == SkipSpaces(s, from)
        j == SkipSpaces(s, i + 1)
    IN  IF i > Len(s) THEN NotRead
        ELSE IF s[i] = "{"
        THEN IF j <= Len(s) /\ s[j] = "}" THEN Read(JObj(NoMembers), j + 1)
             ELSE ReadMembers(s, j, NoMembers)
        ELSE IF s[i] = "["
        THEN IF j <= Len(s) /\ s[j] = "]" THEN Read(JArr(<<>>), j + 1)
             ELSE ReadElements(s, j, <<>>)
        ELSE IF s[i] = "\"" THEN ReadString(s, i)
        ELSE IF IsDigit(s[i]) THEN ReadNumber(s, i)
        ELSE NotRead

\* JSON.parse(text): one value and nothing but whitespace after it
JsonParse(text) ==
    LET r == ReadValue(text, 1)
    IN  IF ~r.ok THEN NotRead
        ELSE IF SkipSpaces(text, r.next) <= Len(text) THEN NotRead
        ELSE r

\* the response of the catch branch
ParseFailed == [ok |-> FALSE, status |-> 500,
                error |-> "Failed to parse response. Please try again."]

\* the response of the outer catch branch
UnexpectedError == [ok |-> FALSE, status |-> 500,
                    error |-> "An unexpected error occurred. Please try again."]

\* ExtractJson with the search for the braces moved out of the inner try
ExtractJsonThrowsOutsideTry(text) ==
    LET jsonStr == CodeBlockContent(text)
        jsonStart == IndexOf(jsonStr, <<"{">>, 1)
        jsonEnd == LastIndexOf(jsonStr, <<"}">>)
        cleanJson == DropCommaBefore(
                         DropCommaBefore(SubSeq(jsonStr, jsonStart, jsonEnd),
                                         "}", 1),
                         "]", 1)
        r == JsonParse(cleanJson)
    IN  IF jsonStart = 0 THEN UnexpectedError
        ELSE IF jsonEnd = 0 THEN UnexpectedError
        ELSE IF jsonEnd < jsonStart THEN UnexpectedError
        ELSE IF ~r.ok THEN ParseFailed
        ELSE [ok |-> TRUE, status |-> 200, value |-> r.val]

\* POST from "let jsonStr = responseText" to the response it returns
ExtractJson(text) ==
    LET jsonStr == CodeBlockContent(text)
        jsonStart == IndexOf(jsonStr, <<"{">>, 1)
        jsonEnd == LastIndexOf(jsonStr, <<"}">>)
        cleanJson == DropCommaBefore(
                         DropCommaBefore(SubSeq(jsonStr, jsonStart, jsonEnd),
                                         "}", 1),
                         "]", 1)
        r == JsonParse(cleanJson)
    IN  IF jsonStart = 0 THEN ParseFailed
        ELSE IF jsonEnd = 0 THEN ParseFailed
        ELSE IF jsonEnd < jsonStart THEN ParseFailed
        ELSE IF ~r.ok THEN ParseFailed
        ELSE [ok |-> TRUE, status |-> 200, value |-> r.val]

\* the model's answers that are tried: a JSON object, written out, ...
Q == "\""
OneMember(k, val) == JObj([x \in {<<k>>} |-> val])

JsonSamples ==
    {[text |-> <<"{", Q, "a", Q, ":", "1", "}">>,
      value |-> OneMember("a", JNum(1))],
     [text |-> <<"{", Q, "a", Q, ":", " ", "[", "1", ",", "2", "]", "}">>,
      value |-> OneMember("a", JArr(<<JNum(1), JNum(2)>>))],
     [text |-> <<"{", Q, "a", Q, ":", "{", Q, "b", Q, ":", Q, "o", Q, "}", "}">>,
      value |-> OneMember("a", OneMember("b", JStr(<<"o">>)))],
     [text |-> <<"{", Q, "a", Q, ":", "1", ",", Q, "b", Q, ":", "[", "]", "}">>,
      value |-> JObj([x \in {<<"a">>, <<"b">>} |->
                         IF x = <<"a">> THEN JNum(1) ELSE JArr(<<>>)])],
     [text |-> <<"{", Q, "a", Q, ":", Q, "}", Q, "}">>,
      value |-> OneMember("a", JStr(<<"}">>))],
     [text |-> <<"{", Q, "a", Q, ":", Q, ",", " ", "}", Q, "}">>,
      value |-> OneMember("a", JStr(<<",", " ", "}">>))],
     [text |-> <<"{", Q, "a", Q, ":", Q, ",", "]", Q, "}">>,
      value |-> OneMember("a", JStr(<<",", "]">>))],
     [text |-> <<"{", Q, "a", Q, ":", Q, Backtick, Backtick, Backtick, Q, "}">>,
      value |-> OneMember("a", JStr(<<Backtick, Backtick, Backtick>>))]}

\* ... with prose before and after it, ...
ProseBefore == {<<>>, <<"s", "o", " ">>, <<"{", "a", "}", " ">>,
                <<"a", ",", "}", " ">>}
ProseAfter == {<<>>, <<" ", "o", "n">>, <<" ", "{", "a", "}">>}

\* ... as it is, in a code block, or in a code block labelled json
Wraps == {"none", "fence", "json fence"}
Wrapped(wrap, text) ==
    IF wrap = "none" THEN text
    ELSE IF wrap = "fence" THEN Fence \o <<"\n">> \o text \o <<"\n">> \o Fence
    ELSE Fence \o JsonLabel \o <<"\n">> \o text \o <<"\n">> \o Fence

\* objects written with a comma before a closer, and what they denote
\* without it
TrailingCommaSamples ==
    {[text |-> <<"{", Q, "a", Q, ":", "1", ",", "}">>,
      value |-> OneMember("a", JNum(1))],
     [text |-> <<"{", Q, "a", Q, ":", "1", " ", ",", " ", "\n", "}">>,
      value |-> OneMember("a", JNum(1))],
     [text |-> <<"{", Q, "a", Q, ":", "[", "1", ",", "2", ",", " ", "]", "}">>,
      value |-> OneMember("a", JArr(<<JNum(1), JNum(2)>>))],
     [text |-> <<"{", Q, "a", Q, ":", "{", Q, "b", Q, ":", Q, "o", Q, ",", "}",
                 ",", "\n", "}">>,
      value |-> OneMember("a", OneMember("b", JStr(<<"o">>)))],
     [text |-> <<"{", Q, "a", Q, ":", Q, ",", "}", Q, ",", "}">>,
      value |-> OneMember("a", JStr(<<",", "}">>))],
     [text |-> <<"{", Q, "a", Q, ":", "[", Q, ",", " ", "]", Q, ",", "]", "}">>,
      value |-> OneMember("a", JArr(<<JStr(<<",", " ", "]">>)>>))]}

\* texts that hold no object: what is wrong, in the text left after the
\* code block is taken
NoObjectDefects == {"no opening brace", "no closing brace",
                    "closing brace first", "does not parse"}
NoObjectSamples ==
    {[text |-> <<"s", "o", " ", "o", "n">>, defect |-> "no opening brace"],
     [text |-> <<"a", " ", "}">>, defect |-> "no opening brace"],
     [text |-> <<"{", Q, "a", Q, ":", "1", "}", " ">> \o Fence \o <<"s", "o">>
               \o Fence,
      defect |-> "no opening brace"],
     [text |-> <<"{", Q, "a", Q, ":", "1">>, defect |-> "no closing brace"],
     [text |-> Fence \o JsonLabel \o <<"\n", "{", Q, "a", Q, ":">> \o Fence
               \o <<"1", "}">>,
      defect |-> "no closing brace"],
     [text |-> <<"}", " ", "a", " ", "{">>, defect |-> "closing brace first"],
     [text |-> <<"}", "{">>, defect |-> "closing brace first"],
     [text |-> <<"{", "a", "}">>, defect |-> "does not parse"],
     [text |-> <<"{", Q, "a", Q, ":", "}">>, defect |-> "does not parse"],
     [text |-> <<"{", Q, "a", Q, ":", "0", "1", "}">>,
      defect |-> "does not parse"],
     [text |-> <<"{", Q, "a", Q, " ", "1", "}">>, defect |-> "does not parse"],
     [text |-> <<"{", Q, "a", Q, ":", "[", "1", "}">>,
      defect |-> "does not parse"],
     [text |-> <<"{", Q, "a", Q, ":", "1", ",", ",", "}">>,
      defect |-> "does not parse"],
     [text |-> <<"{", "}", "}">>, defect |-> "does not parse"]}

NotParsed == [tag |-> "none"]

ExtractInit ==
    /\ \/ \E sample \in JsonSamples, before \in ProseBefore,
             after \in ProseAfter, wrap \in Wraps :
              /\ responseText = before \o Wrapped(wrap, sample.text) \o after
              /\ embedded = sample.value
              /\ defect = "none"
       \/ \E sample \in TrailingCommaSamples, wrap \in Wraps :
              /\ responseText = Wrapped(wrap, sample.text)
              /\ embedded = sample.value
              /\ defect = "trailing comma"
       \/ \E sample \in NoObjectSamples :
              /\ responseText = sample.text
              /\ embedded = NULL
              /\ defect = sample.defect
    /\ parsed = NotParsed

\* POST: the extraction runs on the text
ExtractResponse ==
    /\ parsed = NotParsed
    /\ parsed' = ExtractJson(responseText)
    /\ UNCHANGED <<responseText, embedded, defect, sessionVars, rateVars,
                   ctxVars, routeVars, identVars, compareVars>>

ExtractNext == ExtractResponse

\* no text is being extracted
ExtractIdle ==
    /\ responseText = <<>>
    /\ embedded = NULL
    /\ defect = "none"
    /\ parsed = NotParsed

(***************************************************************************)
(* route: POST, one request at a time.  The handler stops at each await:   *)
(* request.json(), fetch(), and the read of the upstream body.             *)
(***************************************************************************)
\* the values of the fields of a request body.  inputText is kept by its
\* length, the only thing of it the validation reads.
Undefined == [type |-> "undefined"]
Str(t) == [type |-> "string", v |-> t]
TextOfLength(n) == [type |-> "string", length |-> n]

\* !value, for a field that holds a string or nothing
IsFalsy(value) ==
    IF value.type = "undefined" THEN TRUE
    ELSE IF "length" \in DOMAIN value THEN value.length = 0
    ELSE value.v = ""

MAX_INPUT_LENGTH == 50000
Modes == {"critique", "optimise", "generate"}

\* names every object literal answers to besides its own keys
ObjectPrototypeKeys == {"constructor", "toString"}

\* GUIDANCE[vendor]: an entry of the table, a member inherited from
\* Object.prototype, or undefined
GuidanceLookup(vendor) ==
    IF vendor \in Vendors THEN "entry"
    ELSE IF vendor \in ObjectPrototypeKeys THEN "inherited"
    ELSE "undefined"

\* POST: the message of the first check of the body that fails, "" if none
ValidationError(body) ==
    IF IsFalsy(body.mode) \/ IsFalsy(body.vendor) \/ IsFalsy(body.model)
       \/ IsFalsy(body.inputText)
    THEN "Missing required fields"
    ELSE IF GuidanceLookup(body.vendor.v) = "undefined" THEN "Invalid vendor"
    ELSE IF body.mode.v \notin Modes THEN "Invalid mode"
    ELSE IF body.inputText.length > MAX_INPUT_LENGTH
    THEN "Input too long (max 50,000 characters)"
    ELSE ""

\* formatGuidanceForAnalysis(vendor) throws on a value that is no entry of
\* the table: guidance.models is undefined
PromptBuildThrows(body) == GuidanceLookup(body.vendor.v) # "entry"

\* the responses of POST
ErrorResponse(status, message) ==
    [ok |-> FALSE, status |-> status, error |-> message]
TooManyRequests ==
    ErrorResponse(429, "Too many requests. Please wait a moment and try again.")
NotConfigured ==
    ErrorResponse(500, "Server configuration error. Please check the API key is set.")
EmptyResponse == ErrorResponse(500, "Empty response from API")

\* the upstream message put into the response
UpstreamErrorResponseWithBody(up) ==
    ErrorResponse(up.status, up.body)

\* the upstream status handed on whatever it is
UpstreamErrorResponsePassThrough(up) ==
    ErrorResponse(up.status, "Failed to process request. Please try again.")

\* POST: the response to an upstream response that is not ok
UpstreamErrorResponse(up) ==
    IF up.status = 429
    THEN ErrorResponse(429, "API rate limit exceeded. Please try again in a few minutes.")
    ELSE IF up.status = 401
    THEN ErrorResponse(500, "API authentication failed. Please check the API key.")
    ELSE ErrorResponse(up.status, "Failed to process request. Please try again.")

\* response.ok
IsOk(status) == status >= 200 /\ status <= 299

\* data.content?.reduce(...) || '': the texts of the items of type text
RECURSIVE ContentText(_)
ContentText(content) ==
    IF content = <<>> THEN <<>>
    ELSE (IF Head(content).type = "text" THEN Head(content).text ELSE <<>>)
         \o ContentText(Tail(content))

\* parseError.name: Error for the throw of the handler, SyntaxError for
\* the throw of JSON.parse
ParseErrorName(text) ==
    LET jsonStr == CodeBlockContent(text)
        jsonStart == IndexOf(jsonStr, <<"{">>, 1)
        jsonEnd == LastIndexOf(jsonStr, <<"}">>)
    IN  IF jsonStart = 0 THEN "Error"
        ELSE IF jsonEnd = 0 THEN "Error"
        ELSE IF jsonEnd < jsonStart THEN "Error"
        ELSE "SyntaxError"

\* the requests that are tried
RouteClients == {"10.0.0.1"}
ValidBody == [readable |-> TRUE, mode |-> Str("critique"),
              vendor |-> Str("claude"), model |-> Str("Sonnet 4.5"),
              inputText |-> TextOfLength(10)]
UnreadableBody == [readable |-> FALSE]
RequestBodies ==
    {ValidBody,
     [ValidBody EXCEPT !.mode = Str("generate"),
                       !.inputText = TextOfLength(MAX_INPUT_LENGTH)],
     [ValidBody EXCEPT !.inputText = TextOfLength(MAX_INPUT_LENGTH + 1)],
     [ValidBody EXCEPT !.mode = Undefined],
     [ValidBody EXCEPT !.inputText = TextOfLength(0)],
     [ValidBody EXCEPT !.model = Str(""), !.vendor = Str("acme"),
                       !.mode = Str("translate")],
     [ValidBody EXCEPT !.vendor = Str("acme")],
     [ValidBody EXCEPT !.vendor = Str("acme"), !.mode = Str("translate"),
                       !.inputText = TextOfLength(MAX_INPUT_LENGTH + 1)],
     [ValidBody EXCEPT !.vendor = Str("constructor")],
     [ValidBody EXCEPT !.mode = Str("translate")],
     [ValidBody EXCEPT !.mode = Str("translate"),
                       !.inputText = TextOfLength(MAX_INPUT_LENGTH + 1)],
     UnreadableBody}

\* what fetch and the read of its body can bring back
NetworkError == [kind |-> "rejected"]
UpstreamError(status, body) ==
    [kind |-> "response", status |-> status, body |-> body]
UpstreamData(content) ==
    [kind |-> "response", status |-> 200, json |-> TRUE, content |-> content]
TextItem(t) == [type |-> "text", text |-> t]
UpstreamResponses ==
    {NetworkError,
     UpstreamError(401, "invalid x-api-key"),
     UpstreamError(401, "key sk-ant-1 revoked"),
     UpstreamError(429, "rate limit of org a"),
     UpstreamError(429, "rate limit of org b"),
     UpstreamError(500, "internal error"),
     UpstreamError(500, "overloaded"),
     UpstreamError(403, "forbidden"),
     [kind |-> "response", status |-> 200, json |-> FALSE],
     UpstreamData(<<>>),
     UpstreamData(<<[type |-> "tool_use"]>>),
     UpstreamData(<<TextItem(<<"{", Q, "a", Q, ":">>), [type |-> "tool_use"],
                    TextItem(<<"1", "}">>)>>),
     UpstreamData(<<TextItem(<<"s", "o">>)>>),
     UpstreamData(<<TextItem(<<"o", "n">>)>>),
     UpstreamData(<<TextItem(<<"{", "a", "}">>)>>),
     UpstreamData(<<TextItem(<<"{", "b", "}">>)>>)}

NoResponse == [tag |-> "none"]
NoRequest == [tag |-> "none"]
NoUpstream == [kind |-> "none"]
NoPrevious == [tag |-> "none"]

RouteIdle ==
    /\ stage = "idle"
    /\ request = NoRequest
    /\ upstream = NoUpstream
    /\ steps = <<>>
    /\ response = NoResponse
    /\ consoleLog = <<>>
    /\ previous = NoPrevious

\* the handler returns resp, having logged the lines and done the steps
Returns(resp, lines, done) ==
    /\ response' = resp
    /\ consoleLog' = consoleLog \o lines
    /\ steps' = steps \o done
    /\ stage' = "done"

\* PostReceived with the API key looked at before the rate limit
PostReceivedKeyFirst(ip, req) ==
    LET swept == Cleaned(rateLimit, now)
        allowed == Decision(swept, ip, now)
    IN  /\ stage \in {"idle", "done"}
        /\ TotalAccepted < MaxAccepted
        /\ lastCleanup' = IF CleanupDue(now) THEN now ELSE lastCleanup
        /\ rateLimit' = Checked(swept, ip, now)
        /\ lastDecision' = [ip |-> ip, at |-> now, allowed |-> allowed]
        /\ acceptedLog' = IF allowed
                          THEN [acceptedLog EXCEPT ![ip] = Append(@, now)]
                          ELSE acceptedLog
        /\ entryLog' = Logged(entryLog, swept, ip, now, allowed)
        /\ request' = req
        /\ upstream' = NoUpstream
        /\ previous' = IF stage = "done"
                       THEN [upstream |-> upstream, response |-> response,
                             consoleLog |-> consoleLog]
                       ELSE previous
        /\ IF ~req.apiKey
           THEN /\ response' = NotConfigured
                /\ consoleLog' = <<<<"ANTHROPIC_API_KEY not configured">>>>
                /\ steps' = <<>>
                /\ stage' = "done"
           ELSE IF ~allowed
           THEN /\ response' = TooManyRequests
                /\ consoleLog' = <<>>
                /\ steps' = <<>>
                /\ stage' = "done"
           ELSE /\ response' = NoResponse
                /\ consoleLog' = <<>>
                /\ steps' = <<>>
                /\ stage' = "body"
        /\ UNCHANGED <<now, retired, sessionVars, ctxVars, extractVars,
                       identVars, compareVars>>

\* PostReceived with a missing API key answered before the rate limit is
\* looked at
PostReceivedKeyBeforeCount(ip, req) ==
    LET swept == Cleaned(rateLimit, now)
        allowed == Decision(swept, ip, now)
    IN  /\ stage \in {"idle", "done"}
        /\ TotalAccepted < MaxAccepted
        /\ request' = req
        /\ upstream' = NoUpstream
        /\ previous' = IF stage = "done"
                       THEN [upstream |-> upstream, response |-> response,
                             consoleLog |-> consoleLog]
                       ELSE previous
        /\ IF ~req.apiKey
           THEN /\ response' = NotConfigured
                /\ consoleLog' = <<<<"ANTHROPIC_API_KEY not configured">>>>
                /\ steps' = <<>>
                /\ stage' = "done"
                /\ lastDecision' = [ip |-> ip, at |-> now, allowed |-> TRUE]
                /\ UNCHANGED <<rateLimit, lastCleanup, acceptedLog, entryLog>>
           ELSE /\ lastCleanup' = IF CleanupDue(now) THEN now ELSE lastCleanup
                /\ rateLimit' = Checked(swept, ip, now)
                /\ lastDecision' = [ip |-> ip, at |-> now, allowed |-> allowed]
                /\ acceptedLog' = IF allowed
                                  THEN [acceptedLog EXCEPT ![ip] = Append(@, now)]
                                  ELSE acceptedLog
                /\ entryLog' = Logged(entryLog, swept, ip, now, allowed)
                /\ consoleLog' = <<>>
                /\ steps' = <<>>
                /\ IF ~allowed
                   THEN response' = TooManyRequests /\ stage' = "done"
                   ELSE response' = NoResponse /\ stage' = "body"
        /\ UNCHANGED <<now, retired, sessionVars, ctxVars, extractVars,
                       identVars, compareVars>>

\* POST up to the await of request.json(): maybeCleanup(),
\* checkRateLimit(getClientIdentifier(request)), the API key
PostReceived(ip, req) ==
    LET swept == Cleaned(rateLimit, now)
        allowed == Decision(swept, ip, now)
    IN  /\ stage \in {"idle", "done"}
        /\ TotalAccepted < MaxAccepted
        /\ lastCleanup' = IF CleanupDue(now) THEN now ELSE lastCleanup
        /\ rateLimit' = Checked(swept, ip, now)
        /\ lastDecision' = [ip |-> ip, at |-> now, allowed |-> allowed]
        /\ acceptedLog' = IF allowed
                          THEN [acceptedLog EXCEPT ![ip] = Append(@, now)]
                          ELSE acceptedLog
        /\ entryLog' = Logged(entryLog, swept, ip, now, allowed)
        /\ request' = req
        /\ upstream' = NoUpstream
        /\ previous' = IF stage = "done"
                       THEN [upstream |-> upstream, response |-> response,
                             consoleLog |-> consoleLog]
                       ELSE previous
        /\ IF ~allowed
           THEN /\ response' = TooManyRequests
                /\ consoleLog' = <<>>
                /\ steps' = <<>>
                /\ stage' = "done"
           ELSE IF ~req.apiKey
           THEN /\ response' = NotConfigured
                /\ consoleLog' = <<<<"ANTHROPIC_API_KEY not configured">>>>
                /\ steps' = <<>>
                /\ stage' = "done"
           ELSE /\ response' = NoResponse
                /\ consoleLog' = <<>>
                /\ steps' = <<>>
                /\ stage' = "body"
        /\ UNCHANGED <<now, retired, sessionVars, ctxVars, extractVars,
                       identVars, compareVars>>

\* POST from request.json() to the await of fetch
BodyRead ==
    /\ stage = "body"
    /\ IF ~request.body.readable
       THEN Returns(UnexpectedError, <<<<"Request error:", "SyntaxError">>>>,
                    <<>>)
       ELSE IF ValidationError(request.body) # ""
       THEN Returns(ErrorResponse(400, ValidationError(request.body)), <<>>,
                    <<"validate">>)
       ELSE IF PromptBuildThrows(request.body)
       THEN Returns(UnexpectedError, <<<<"Request error:", "TypeError">>>>,
                    <<"validate">>)
       ELSE /\ steps' = steps \o <<"validate", "fetch">>
            /\ stage' = "fetch"
            /\ UNCHANGED <<response, consoleLog>>
    /\ UNCHANGED <<request, upstream, previous, rateVars, sessionVars, ctxVars,
                   extractVars, identVars, compareVars>>

\* FetchSettles with the call made again after a response that is not ok
FetchSettlesRetries(up) ==
    /\ stage = "fetch"
    /\ IF up.kind = "rejected"
       THEN /\ Returns(UnexpectedError, <<<<"Request error:", "TypeError">>>>,
                       <<>>)
            /\ UNCHANGED upstream
       ELSE IF ~IsOk(up.status) /\ Len(steps) < 3
       THEN /\ steps' = Append(steps, "fetch")
            /\ UNCHANGED <<upstream, stage, response, consoleLog>>
       ELSE /\ upstream' = up
            /\ stage' = "upstream"
            /\ UNCHANGED <<steps, response, consoleLog>>
    /\ UNCHANGED <<request, previous, rateVars, sessionVars, ctxVars,
                   extractVars, identVars, compareVars>>

\* POST: the await of fetch ends with a response or with a rejection
FetchSettles(up) ==
    /\ stage = "fetch"
    /\ IF up.kind = "rejected"
       THEN /\ Returns(UnexpectedError, <<<<"Request error:", "TypeError">>>>,
                       <<>>)
            /\ UNCHANGED upstream
       ELSE /\ upstream' = up
            /\ stage' = "upstream"
            /\ UNCHANGED <<steps, response, consoleLog>>
    /\ UNCHANGED <<request, previous, rateVars, sessionVars, ctxVars,
                   extractVars, identVars, compareVars>>

\* POST from the read of the upstream body to the response
UpstreamBodyRead ==
    /\ stage = "upstream"
    /\ IF ~IsOk(upstream.status)
       THEN Returns(UpstreamErrorResponse(upstream),
                    <<<<"Anthropic API error: status", upstream.status>>>>,
                    <<>>)
       ELSE IF ~upstream.json
       THEN Returns(UnexpectedError, <<<<"Request error:", "SyntaxError">>>>,
                    <<>>)
       ELSE IF ContentText(upstream.content) = <<>>
       THEN Returns(EmptyResponse, <<>>, <<>>)
       ELSE IF ~ExtractJson(ContentText(upstream.content)).ok
       THEN Returns(ExtractJson(ContentText(upstream.content)),
                    <<<<"JSON parse error:",
                        ParseErrorName(ContentText(upstream.content))>>>>,
                    <<"extract">>)
       ELSE Returns(ExtractJson(ContentText(upstream.content)), <<>>,
                    <<"extract">>)
    /\ UNCHANGED <<request, upstream, previous, rateVars, sessionVars, ctxVars,
                   extractVars, identVars, compareVars>>

\* the bodies the validation of POST refuses
RefusedBodies ==
    {body \in RequestBodies :
        IF body.readable THEN ValidationError(body) # "" ELSE FALSE}

\* requests that POST refuses once they are past the rate limit: no API key
\* on the server, or a body the validation refuses
RefusedRequests ==
    {[ip |-> ip, apiKey |-> key, body |-> body] :
        ip \in RouteClients, key \in BOOLEAN, body \in RefusedBodies}

\* the route receiving only such requests, while time passes
AccountingNext ==
    \/ \E req \in RefusedRequests : PostReceived(req.ip, req)
    \/ BodyRead
    \/ AdvanceClock

RouteNext ==
    \/ \E ip \in RouteClients, key \in BOOLEAN, body \in RequestBodies :
           PostReceived(ip, [ip |-> ip, apiKey |-> key, body |-> body])
    \/ BodyRead
    \/ \E up \in UpstreamResponses : FetchSettles(up)
    \/ UpstreamBodyRead

(***************************************************************************)
(* route: getClientIdentifier(request)                                     *)
(***************************************************************************)
\* request.headers.get(name): null, or the value
Absent == [present |-> FALSE]
Header(t) == [present |-> TRUE, v |-> t]

\* String.prototype.split(sep): the parts between the separators
RECURSIVE Split(_, _)
Split(t, sep) ==
    LET at == IndexOf(t, <<sep>>, 1)
    IN  IF at = 0 THEN <<t>>
        ELSE <<SubSeq(t, 1, at - 1)>> \o Split(SubSeq(t, at + 1, Len(t)), sep)

IsHexDigit(ch) ==
    IsDigit(ch) \/ ch \in {"a", "b", "c", "d", "e", "f",
                           "A", "B", "C", "D", "E", "F"}

\* ipv4Regex.test(t): /^(\d{1,3}\.){3}\d{1,3}$/
MatchesIpv4(t) ==
    LET parts == Split(t, ".")
    IN  /\ Len(parts) = 4
        /\ \A i \in 1..Len(parts) :
               /\ Len(parts[i]) \in 1..3
               /\ \A j \in 1..Len(parts[i]) : IsDigit(parts[i][j])

\* ipv6Regex.test(t): /^([0-9a-fA-F]{0,4}:){2,7}[0-9a-fA-F]{0,4}$/
MatchesIpv6(t) ==
    LET parts == Split(t, ":")
    IN  /\ Len(parts) - 1 \in 2..7
        /\ \A i \in 1..Len(parts) :
               /\ Len(parts[i]) \in 0..4
               /\ \A j \in 1..Len(parts[i]) : IsHexDigit(parts[i][j])

\* Buffer.from(text): the bytes of the characters the headers tried are
\* written with
CharCode(ch) ==
    CASE ch = "-" -> 45 [] ch = "." -> 46 [] ch = "/" -> 47 [] ch = "0" -> 48
      [] ch = "5" -> 53 [] ch = "B" -> 66 [] ch = "G" -> 71 [] ch = "M" -> 77
      [] ch = "a" -> 97 [] ch = "e" -> 101 [] ch = "i" -> 105
      [] ch = "l" -> 108 [] ch = "n" -> 110 [] ch = "o" -> 111
      [] ch = "z" -> 122

Base64Alphabet ==
    <<"A", "B", "C", "D", "E", "F", "G", "H", "I", "J", "K", "L", "M",
      "N", "O", "P", "Q", "R", "S", "T", "U", "V", "W", "X", "Y", "Z",
      "a", "b", "c", "d", "e", "f", "g", "h", "i", "j", "k", "l", "m",
      "n", "o", "p", "q", "r", "s", "t", "u", "v", "w", "x", "y", "z",
      "0", "1", "2", "3", "4", "5", "6", "7", "8", "9", "+", "/">>
Base64Char(n) == Base64Alphabet[n + 1]

\* toString('base64') of a sequence of bytes
RECURSIVE Base64(_)
Base64(bytes) ==
    IF Len(bytes) = 0 THEN <<>>
    ELSE IF Len(bytes) = 1
    THEN <<Base64Char(bytes[1] \div 4), Base64Char((bytes[1] % 4) * 16),
           "=", "=">>
    ELSE IF Len(bytes) = 2
    THEN <<Base64Char(bytes[1] \div 4),
           Base64Char((bytes[1] % 4) * 16 + bytes[2] \div 16),
           Base64Char((bytes[2] % 16) * 4), "=">>
    ELSE <<Base64Char(bytes[1] \div 4),
           Base64Char((bytes[1] % 4) * 16 + bytes[2] \div 16),
           Base64Char((bytes[2] % 16) * 4 + bytes[3] \div 64),
           Base64Char(bytes[3] % 64)>>
         \o Base64(SubSeq(bytes, 4, Len(bytes)))

\* value || ''
OrEmpty(h) == IF h.present THEN h.v ELSE <<>>

\* `anon_${Buffer.from(userAgent + acceptLang).toString('base64')
\*                                            .substring(0, 16)}`
FallbackId(hs) ==
    LET text == OrEmpty(hs.userAgent) \o OrEmpty(hs.acceptLanguage)
        encoded == Base64([i \in 1..Len(text) |-> CharCode(text[i])])
    IN  <<"a", "n", "o", "n", "_">> \o SubSeq(encoded, 1, Min(16, Len(encoded)))

\* forwardedFor?.split(',')[0] || realIp || ''
Candidate(hs) ==
    IF hs.forwardedFor.present /\ Split(hs.forwardedFor.v, ",")[1] # <<>>
    THEN Split(hs.forwardedFor.v, ",")[1]
    ELSE IF hs.realIp.present /\ hs.realIp.v # <<>> THEN hs.realIp.v
    ELSE <<>>

getClientIdentifier(hs) ==
    LET ip == Trim(Candidate(hs))
    IN  IF ip # <<>> /\ (MatchesIpv4(ip) \/ MatchesIpv6(ip)) THEN ip
        ELSE FallbackId(hs)

\* the headers that are tried
ForwardedForValues ==
    {Absent, Header(<<>>),
     Header(<<"1", ".", "2", ".", "3", ".", "4">>), Header(<<" ", "1", ".", "2", ".", "3", ".", "4", " ", ",", " ", "5", ".", "6", ".", "7", ".", "8">>), Header(<<"u", "n", "k", "n", "o", "w", "n">>), Header(<<"u", "n", "k", "n", "o", "w", "n", ",", " ", "1", ".", "2", ".", "3", ".", "4">>), Header(<<"f", "e", "8", "0", ":", ":", "1">>),
     Header(<<"1", ".", "2", ".", "3">>), Header(<<" ", ",", "1", ".", "2", ".", "3", ".", "4">>)}
RealIpValues == {Absent, Header(<<"9", ".", "9", ".", "9", ".", "9">>), Header(<<":", ":", "1">>), Header(<<"n", "o", "n", "e">>)}
UserAgentValues == {Absent, Header(<<"M", "o", "z", "i", "l", "l", "a", "/", "5", ".", "0">>)}
AcceptLanguageValues == {Absent, Header(<<"e", "n">>), Header(<<"e", "n", "-", "G", "B">>)}

NotResolved == <<>>

IdentInit ==
    /\ headers \in [forwardedFor : ForwardedForValues, realIp : RealIpValues,
                    userAgent : UserAgentValues,
                    acceptLanguage : AcceptLanguageValues]
    /\ clientId = NotResolved

\* POST: const clientId = getClientIdentifier(request)
ResolveClient ==
    /\ clientId = NotResolved
    /\ clientId' = getClientIdentifier(headers)
    /\ UNCHANGED <<headers, sessionVars, rateVars, ctxVars, extractVars,
                   routeVars, compareVars>>

IdentNext == ResolveClient

\* no headers are being resolved
IdentIdle == headers = NULL /\ clientId = NotResolved

(***************************************************************************)
(* Specifications                                                          *)
(***************************************************************************)
CtxIdle == ctxCritique = NULL /\ ctxAnswers = NoAnswers /\ ctxOut = NotBuilt

\* the session of one page
SessionSpecInit ==
    SessionInit /\ RateInit /\ CtxIdle /\ ExtractIdle /\ RouteIdle
    /\ IdentIdle
    /\ CompareInit
SessionSpec == SessionSpecInit /\ [][SessionNext]_vars

\* the session of one page of app/page.js
PageSpecInit ==
    SessionInit /\ RateInit /\ CtxIdle /\ ExtractIdle /\ RouteIdle
    /\ IdentIdle
    /\ CompareInit
PageSpec == PageSpecInit /\ [][PageNext]_vars

\* the rate limiter of one server process
RateSpecInit ==
    RateInit /\ SessionInit /\ CtxIdle /\ ExtractIdle /\ RouteIdle
    /\ IdentIdle
    /\ CompareInit
RateSpec == RateSpecInit /\ [][RateNext]_vars

\* buildAdditionalContext on chosen arguments
ContextNext == BuildContext

ContextSpecInit ==
    CtxInit /\ SessionInit /\ RateInit /\ ExtractIdle /\ RouteIdle
    /\ IdentIdle
    /\ CompareInit
ContextSpec == ContextSpecInit /\ [][ContextNext]_vars

\* the extraction on chosen texts
ExtractSpecInit ==
    ExtractInit /\ SessionInit /\ RateInit /\ CtxIdle /\ RouteIdle
    /\ IdentIdle
    /\ CompareInit
ExtractSpec == ExtractSpecInit /\ [][ExtractNext]_vars

\* the route handling requests one after another
RouteSpecInit ==
    RouteIdle /\ RateInit /\ SessionInit /\ CtxIdle /\ ExtractIdle
    /\ IdentIdle
    /\ CompareInit
RouteSpec == RouteSpecInit /\ [][RouteNext]_vars

\* getClientIdentifier on chosen headers
IdentSpecInit ==
    IdentInit /\ SessionInit /\ RateInit /\ CtxIdle /\ ExtractIdle
    /\ RouteIdle
    /\ CompareInit
IdentSpec == IdentSpecInit /\ [][IdentNext]_vars

\* the ring buffer, the full-rescan limiter and the servers the identities
\* have to themselves, given the same requests
CompareSpec == RateSpecInit /\ [][CompareNext]_vars

\* the route handling requests that it refuses, one after another
AccountingSpec == RouteSpecInit /\ [][AccountingNext]_vars

\* the calls of the page that are awaited return or fail
CritiqueReturns ==
    \/ \E data \in Critiques : CritiqueSucceeds(data)
    \/ \E msg \in FailureMessages : CritiqueFails(msg)
GenerateReturns ==
    \/ \E data \in Results : GenerateSucceeds(data)
    \/ \E msg \in FailureMessages : GenerateFails(msg)

\* a regenerate call returns in this step
RegenerateCompletes ==
    \/ \E data \in Results : RegenerateSucceeds(data)
    \/ \E msg \in FailureMessages : RegenerateFails(msg)

\* the session of a user who leaves the problem context and the answers
\* empty and keeps the entry mode once chosen
CallsNext ==
    \/ \E m \in EntryModes : SetEntryMode(m)
    \/ \E text \in InputTexts : HandleInputChange(text)
    \/ TimePasses
    \/ \E k \in TimerIds : ResetTimeoutFires(k)
    \/ Unmount
    \/ ResetToStart
    \/ HandleStartNew
    \/ RunCritiqueRejected
    \/ RunCritique
    \/ \E data \in Critiques : CritiqueSucceeds(data)
    \/ \E msg \in FailureMessages : CritiqueFails(msg)
    \/ RunGenerate
    \/ \E data \in Results : GenerateSucceeds(data)
    \/ \E msg \in FailureMessages : GenerateFails(msg)
    \/ \E vendor \in Vendors : HandleVendorChange(vendor)
    \/ \E model \in AllModels : HandleModelChange(model)
    \/ \E data \in Results : RegenerateSucceeds(data)
    \/ \E msg \in FailureMessages : RegenerateFails(msg)

\* ... when every call that is awaited comes back
SessionFairSpec ==
    SessionSpecInit /\ [][CallsNext]_vars
    /\ WF_vars(CritiqueReturns)
    /\ WF_vars(GenerateReturns)
    /\ WF_vars(RegenerateCompletes)

\* the rate limiter of a server process that runs for several sweeps
LongRunSpec == RateSpecInit /\ [][LongRunNext]_vars

\* the sweep under requests that keep arriving while the clock moves on:
\* Date.now() grows, and some identity that has not retired sends a request
SweepSpec ==
    RateSpecInit /\ [][SweepNext]_vars
    /\ WF_vars(HalfWindowPasses)
    /\ WF_vars(\E ip \in Clients : PostUnlogged(ip))

(***************************************************************************)
(* Properties                                                              *)
(***************************************************************************)
\* accepted requests of a log with a timestamp in the trailing window of t
InWindow(log, t) ==
    Cardinality({i \in 1..Len(log) : log[i] > t - RATE_LIMIT_WINDOW})

\* accepted requests of the client in the window before the last decision
PriorInWindow ==
    InWindow(acceptedLog[lastDecision.ip], lastDecision.at)
    - (IF lastDecision.allowed THEN 1 ELSE 0)

\* C1: a request is accepted when fewer than RATE_LIMIT_MAX accepted requests
\* of its identity lie in the trailing window, and rejected when
\* RATE_LIMIT_MAX of them do.
C1_AcceptsUpToLimit ==
    lastDecision # NoDecision =>
        (lastDecision.allowed <=> PriorInWindow < RATE_LIMIT_MAX)

\* a request is rejected after the ring has wrapped around
C1_Witness ==
    /\ lastDecision # NoDecision
    /\ ~lastDecision.allowed
    /\ Len(acceptedLog[lastDecision.ip]) > RATE_LIMIT_MAX

\* C2: phase critique or result implies critique is set.
C2_CritiqueSetOutsideInput ==
    phase \in {"critique", "result"} => critique # NULL

\* C3: phase result implies result is set.
C3_ResultSetInResult ==
    phase = "result" => result # NULL

\* phase result reached while another call is still awaited
C3_Witness ==
    phase = "result" /\ result # NULL /\ InFlightTotal > 0

\* C4: entryMode unset implies phase input.
C4_NoEntryModeOnlyInInput ==
    entryMode = NoEntryMode => phase = "input"

\* C5: every key of answers is the id of a question of the current critique,
\* and a step that stores another critique empties answers.
C5_AnswersBelongToCritique ==
    /\ [](DOMAIN answers \subseteq QuestionIds(critique))
    /\ [][critique' # critique => answers' = NoAnswers]_vars

\* both questions of a critique answered
C5_Witness ==
    critique = CritiqueB /\ DOMAIN answers = {"q1", "q2"}

\* C6: runCritique on an input of fewer than 5 trimmed characters reports the
\* validation failure, changes none of phase, critique, answers, result,
\* retryCount and isLoading, and starts no fetch.
C6_ShortInputRejected ==
    [][(RunCritique \/ RunCritiqueRejected) /\ Len(Trim(inputText)) < 5 =>
          /\ error' = ValidationMessage
          /\ UNCHANGED <<phase, critique, answers, result, retryCount,
                         isLoading, inflight>>]_vars

\* the validation failure shown for the four-character input
C6_Witness ==
    error = ValidationMessage /\ inputText = FourCharText /\ InFlightTotal = 0

\* C7: a critique call that succeeds stores the returned critique, empties
\* answers, moves phase to critique and sets retryCount to 0.
C7_CritiqueSuccess ==
    [][\A data \in Critiques : CritiqueSucceeds(data) =>
          /\ critique' = data
          /\ answers' = NoAnswers
          /\ phase' = "critique"
          /\ retryCount' = 0]_vars

\* a critique stored, with nothing answered yet and no call left in flight
C7_Witness ==
    /\ phase = "critique" /\ critique = CritiqueB
    /\ answers = NoAnswers /\ retryCount = 0 /\ InFlightTotal = 0

\* C8: a generate call that succeeds stores the returned result, moves phase
\* to result and sets retryCount to 0, leaving critique and answers alone.
C8_GenerateSuccess ==
    [][\A data \in Results : GenerateSucceeds(data) =>
          /\ result' = data
          /\ phase' = "result"
          /\ retryCount' = 0
          /\ UNCHANGED <<critique, answers>>]_vars

\* a result stored next to the critique and the answers it was built from
C8_Witness ==
    /\ phase = "result" /\ result \in Results /\ retryCount = 0
    /\ critique = CritiqueB /\ DOMAIN answers = {"q2"}

RECURSIVE ContextFrom(_, _, _, _)
ContextFrom(questions, ans, i, acc) ==
    IF i > Len(questions) THEN acc
    ELSE LET q == questions[i]
             counts == q.id \in DOMAIN ans /\ Trim(ans[q.id]) # <<>>
             block == <<"Q", ":", " ">> \o q.question
                      \o <<"\n", "A", ":", " ">> \o ans[q.id]
         IN  ContextFrom(questions, ans, i + 1,
                 IF ~counts THEN acc
                 ELSE IF acc = <<>> THEN block
                 ELSE acc \o <<"\n", "\n">> \o block)

\* the answers that count: keyed by a question of the critique, not blank
CountingAnswers(c, ans) ==
    [id \in {k \in DOMAIN ans : k \in QuestionIds(c) /\ Trim(ans[k]) # <<>>}
        |-> ans[id]]

\* C10: the context holds one block per answered question of the critique,
\* in question order, joined by blank lines; it is empty when no question
\* is answered; entries for unknown ids or with blank text add nothing.
C10_ContextFromAnsweredQuestions ==
    ctxOut # NotBuilt =>
        /\ ctxOut = ContextFrom(QuestionsOf(ctxCritique), ctxAnswers, 1, <<>>)
        /\ (CountingAnswers(ctxCritique, ctxAnswers) = NoAnswers => ctxOut = <<>>)
        /\ ctxOut = buildAdditionalContext(ctxCritique,
                        CountingAnswers(ctxCritique, ctxAnswers))

\* two of three questions answered, one blank answer and one unknown key
C10_Witness ==
    /\ ctxCritique = CritiqueB
    /\ DOMAIN ctxAnswers = {"q1", "q2", "q3"}
    /\ ctxAnswers["q1"] = <<" ">> /\ ctxAnswers["q2"] = <<"y">>
    /\ ctxOut = <<"Q", ":", " ", "H", "\n", "A", ":", " ", "y">>

\* C11: a vendor or model switch in phase result sets isRegenerating and the
\* requested vendor and model at once; the selection stays as requested while
\* the call is awaited; when the call returns isRegenerating is false and
\* phase is result; a successful call stores the new generation in result.
C11_SwitchModelRegenerates ==
    [][/\ \A vendor \in Vendors :
             HandleVendorChange(vendor) /\ phase = "result" =>
                 /\ isRegenerating'
                 /\ selectedVendor' = vendor
                 /\ selectedModel' = Models(vendor)[1]
       /\ \A model \in AllModels :
             HandleModelChange(model) /\ phase = "result" =>
                 /\ isRegenerating'
                 /\ selectedModel' = model
                 /\ UNCHANGED selectedVendor
       /\ (inflight["regenerate"] > 0 /\ inflight'["regenerate"] > 0 =>
              UNCHANGED modelVars)
       /\ \A data \in Results : RegenerateSucceeds(data) => result' = data
       /\ (RegenerateCompletes =>
              /\ ~isRegenerating'
              /\ phase' = "result"
              /\ UNCHANGED modelVars)]_vars

\* C13: critique and generate calls never overlap: at most one of them is
\* awaited at any time.
C13_OneSubmissionAtATime ==
    inflight["critique"] + inflight["generate"] <= 1

\* the values of the hooks after construction, apart from the flags
AllFieldsInitial ==
    /\ phase = "input"
    /\ entryMode = NoEntryMode
    /\ inputText = EmptyText
    /\ problemContext = EmptyText
    /\ critique = NULL
    /\ answers = NoAnswers
    /\ result = NULL
    /\ selectedVendor = "claude"
    /\ selectedModel = "Sonnet 4.5"
    /\ error = ""
    /\ retryCount = 0

\* C16 as stated: a reset is offered in every phase and leaves every field at
\* its initial value.
C16_ResetRestoresInitialValues ==
    /\ [](ENABLED (ResetToStart \/ HandleStartNew))
    /\ [][ResetToStart \/ HandleStartNew => AllFieldsInitial']_vars

\* C16 as amended: Start Over is offered in phases critique and result and
\* Start New Prompt in phase result; both set phase to input, unset entryMode,
\* empty problemContext, critique, answers, result and error and set
\* retryCount to 0; neither changes selectedVendor or selectedModel; Start
\* Over keeps inputText and Start New Prompt empties it.
C16_ResetClearsAnalysis ==
    /\ []((ENABLED ResetToStart) <=> phase \in {"critique", "result"})
    /\ []((ENABLED HandleStartNew) => phase = "result")
    /\ [][ResetToStart \/ HandleStartNew =>
            /\ phase' = "input"
            /\ entryMode' = NoEntryMode
            /\ problemContext' = EmptyText
            /\ ~showProblemContext'
            /\ critique' = NULL
            /\ answers' = NoAnswers
            /\ result' = NULL
            /\ error' = ""
            /\ retryCount' = 0
            /\ UNCHANGED modelVars
            /\ (ResetToStart => UNCHANGED inputText)
            /\ (HandleStartNew => inputText' = EmptyText)]_vars

\* after Start Over: the typed text and a selection other than the default
\* are still there, and the generate call started before it is still awaited
C16_Witness ==
    /\ phase = "input" /\ entryMode = NoEntryMode
    /\ critique = NULL /\ result = NULL /\ retryCount = 0 /\ error = ""
    /\ inputText = FiveCharText /\ selectedVendor = "gemini"
    /\ inflight["generate"] = 1

\* C14: an edit stores the text at once and resets nothing by itself; outside
\* phase input it leaves exactly one timer pending, with the full quiet period
\* to run; the reset runs only when the quiet period has passed since the
\* last such edit, leaves no timer pending, and puts phase back to input with
\* critique, answers and result emptied.
C14_DebouncedReset ==
    [][/\ \A text \in InputTexts :
             HandleInputChange(text) =>
                 /\ inputText' = text
                 /\ UNCHANGED <<phase, critique, answers, result>>
                 /\ (phase # "input" =>
                        PendingTimers' = 1 /\ resetTimeout' = DebounceMs)
       /\ \A k \in TimerIds :
             ResetTimeoutFires(k) =>
                 /\ sinceEdit >= DebounceMs
                 /\ PendingTimers' = 0
                 /\ phase' = "input"
                 /\ critique' = NULL
                 /\ answers' = NoAnswers
                 /\ result' = NULL]_vars

\* after edits in phase result the quiet period has passed and the reset is due
C14_Witness ==
    /\ phase = "result" /\ result # NULL
    /\ inputText = EmptyText
    /\ resetTimeout = 0 /\ sinceEdit = DebounceMs

\* C15: at most one debounce timer is pending, and none is pending once the
\* component is unmounted.
C15_OneTimerClearedOnUnmount ==
    /\ PendingTimers <= 1
    /\ (~mounted => PendingTimers = 0)

\* the component was unmounted one tick after an edit that started a timer,
\* and no timer is left
C15_Witness ==
    ~mounted /\ PendingTimers = 0 /\ sinceEdit = TickMs

\* C19: the Try again link is offered only with an error shown and
\* 1 <= retryCount < 3; with retryCount at 3 or more the Analyse and Generate
\* buttons stay enabled, and a further failure still adds one to retryCount.
C19_RetryLinkNotACap ==
    /\ [](RetryOffered => error # "" /\ retryCount >= 1 /\ retryCount < 3)
    /\ [](retryCount >= 3 => ~RetryOffered)
    /\ [](retryCount >= 3 /\ mounted /\ ~isLoading
            /\ phase = "critique" /\ critique # NULL => RunGenerateEnabled)
    /\ [](retryCount >= 3 /\ mounted /\ ~isLoading /\ phase = "input"
            /\ entryMode # NoEntryMode /\ Trim(inputText) # EmptyText
            => RunCritiqueEnabled)
    /\ [][\A msg \in FailureMessages :
            (CritiqueFails(msg) \/ GenerateFails(msg)) /\ retryCount >= 3 =>
                retryCount' = retryCount + 1]_vars

\* a fourth failure in a row has been counted
C19_Witness ==
    retryCount = 4 /\ error \in FailureMessages /\ ~RetryOffered

\* C12: while isRegenerating is set no step changes the selected vendor or
\* model, starts a regenerate or an implement-suggestions call, or writes the
\* clipboard; and at most one regenerate call is awaited at any time.
C12_RegeneratingBlocksActions ==
    /\ [](inflight["regenerate"] <= 1)
    /\ [](inflight["regenerate"] > 0 => isRegenerating)
    /\ [][isRegenerating =>
            /\ UNCHANGED modelVars
            /\ inflight'["regenerate"] <= inflight["regenerate"]
            /\ inflight'["implement"] <= inflight["implement"]
            /\ UNCHANGED clipboard]_vars

\* a regenerate call is awaited under a result with suggestions that was
\* copied before: the selector, Copy and the implement button are all shown
C12_Witness ==
    /\ isRegenerating /\ inflight["regenerate"] = 1
    /\ phase = "result" /\ HasSuggestions(result)
    /\ ~isImplementingSuggestions
    /\ clipboard = result.generatedPrompt

\* the instruction block as the contract words it: a heading, then the
\* suggestions one per line, numbered from k
RECURSIVE NumberedFrom(_, _)
NumberedFrom(suggestions, k) ==
    IF suggestions = <<>> THEN <<>>
    ELSE NumberText(k) \o <<".", " ", Head(suggestions)>>
         \o (IF Len(suggestions) = 1 THEN <<>>
             ELSE <<"\n">> \o NumberedFrom(Tail(suggestions), k + 1))

\* an implement-suggestions request is sent in this step
ImplementRequestSent == inflight'["implement"] > inflight["implement"]

\* C17: implementSuggestions sends a request only under a result with
\* suggestions, and then exactly one: a generate request for the selected
\* vendor and model whose additional context is the context of the answered
\* questions followed by the numbered instruction block; nothing but the flag,
\* the error and the request changes in that step; a successful call stores
\* the new generation in result and leaves phase and the selection alone.
C17_ImplementSuggestions ==
    [][/\ (ImplementSuggestions \/ ImplementRequestSent =>
              /\ result # NULL /\ Len(result.suggestions) > 0
              /\ inflight' = [inflight EXCEPT !["implement"] = @ + 1]
              /\ implementRequest'.mode = "generate"
              /\ implementRequest'.vendor = selectedVendor
              /\ implementRequest'.model = selectedModel
              /\ implementRequest'.additionalContext =
                     ContextFrom(QuestionsOf(critique), answers, 1, <<>>)
                     \o <<"\n", "\n", "Please also implement these improvements:",
                          "\n">>
                     \o NumberedFrom(result.suggestions, 1)
              /\ UNCHANGED <<phase, modelVars, result, critique, answers>>)
       /\ \A data \in Results :
             ImplementSucceeds(data) =>
                 result' = data /\ UNCHANGED <<phase, modelVars>>]_vars

\* the request awaited for two suggestions and one answered question
C17_Witness ==
    /\ inflight["implement"] = 1
    /\ implementRequest # NULL
    /\ implementRequest.additionalContext =
           <<"Q", ":", " ", "W", "\n", "A", ":", " ", "y",
             "\n", "\n", "Please also implement these improvements:", "\n",
             "1", ".", " ", "s1", "\n", "2", ".", " ", "s2">>

\* C18: an implement-suggestions call and a regenerate call are never awaited
\* at the same time.
C18_ImplementExcludesRegenerate ==
    ~(inflight["implement"] > 0 /\ inflight["regenerate"] > 0)

\* C20: the extraction returns the object the text was written around,
\* whatever the prose around it, with or without a code block and its json
\* label, and whatever the object's strings hold.
C20_ExtractorRoundTrip ==
    parsed # NotParsed /\ defect = "none"
        => parsed.ok /\ parsed.value = embedded

\* C21: an object written with a comma (and whitespace) before a closing
\* brace or bracket is parsed, and the value returned is the one the text
\* denotes without that comma.
C21_TrailingCommaTolerated ==
    parsed # NotParsed /\ defect = "trailing comma"
        => parsed.ok /\ parsed.value = embedded

\* C22: a text that, once the code block is taken, has no opening brace, no
\* closing brace, its last closing brace before its first opening brace, or a
\* slice that does not parse, ends in the parse-failure response (status 500,
\* "Failed to parse response"), never in an object and never in the response
\* of the outer catch.
C22_NoObjectFailsToParse ==
    parsed # NotParsed /\ defect \in NoObjectDefects => parsed = ParseFailed

\* the extraction has failed on a text whose closing brace comes first
C22_Witness ==
    /\ defect = "closing brace first"
    /\ parsed = ParseFailed

\* the calls of the model client made for the request in hand
ModelCalls == Cardinality({i \in 1..Len(steps) : steps[i] = "fetch"})

\* the body is one the route is meant to accept: every field present, a
\* vendor of the table, a known mode, at most 50000 characters
WellFormedBody(body) ==
    /\ body.readable
    /\ ~IsFalsy(body.mode) /\ ~IsFalsy(body.vendor) /\ ~IsFalsy(body.model)
    /\ ~IsFalsy(body.inputText)
    /\ body.vendor.v \in Vendors
    /\ body.mode.v \in Modes
    /\ body.inputText.length <= 50000

\* C23: the handler calls the model client at most once for a request: not
\* at all when the request is rate-limited, the API key is not set or the
\* body is not acceptable, once otherwise; a failure of the call or of the
\* extraction is returned without a second call.
C23_AtMostOneModelCall ==
    /\ ModelCalls <= 1
    /\ stage = "done" =>
           (ModelCalls = 0 <=>
                ~(lastDecision.allowed /\ request.apiKey
                  /\ WellFormedBody(request.body)))

\* a request whose one call brought a text that failed to parse is answered
C23_Witness ==
    /\ stage = "done"
    /\ ModelCalls = 1
    /\ response = ParseFailed

\* C24: a request the limiter rejects is answered with status 429 whatever
\* its body and whatever the configuration, and nothing else is done for it:
\* no validation, no call, no extraction, no log line.
C24_RateLimitFirst ==
    stage = "done" /\ ~lastDecision.allowed =>
        /\ response = TooManyRequests
        /\ response.status = 429
        /\ steps = <<>>
        /\ consoleLog = <<>>

\* a rejected request without API key and with an unacceptable body
C24_Witness ==
    /\ stage = "done"
    /\ ~lastDecision.allowed
    /\ ~request.apiKey
    /\ ~WellFormedBody(request.body)
    /\ response = TooManyRequests

\* the reason the first violated check gives, in the order: missing field,
\* unknown vendor, unknown mode, input too long
FirstViolation(body) ==
    IF IsFalsy(body.mode) \/ IsFalsy(body.vendor) \/ IsFalsy(body.model)
       \/ IsFalsy(body.inputText)
    THEN "Missing required fields"
    ELSE IF body.vendor.v \notin Vendors THEN "Invalid vendor"
    ELSE IF body.mode.v \notin Modes THEN "Invalid mode"
    ELSE "Input too long (max 50,000 characters)"

\* C25: a request that passed the rate limit with a body that misses a
\* field, names an unknown vendor or mode, or is longer than 50000
\* characters is answered with status 400 and the reason of the first
\* violated check, and the model client is not called; a body of exactly
\* 50000 characters, otherwise acceptable, is not answered with status 400.
C25_InvalidRequestRejected ==
    stage = "done" /\ lastDecision.allowed /\ request.apiKey
    /\ request.body.readable =>
        IF WellFormedBody(request.body)
        THEN response.status # 400
        ELSE /\ response = ErrorResponse(400, FirstViolation(request.body))
             /\ ModelCalls = 0

\* C29: an upstream response that is not ok is answered by its status alone:
\* 401 as status 500, never 401; 429 as 429; any other status as itself; the
\* extraction is not run and no result is returned.
C29_UpstreamStatusMapping ==
    stage = "done" /\ upstream.kind = "response" /\ ~IsOk(upstream.status) =>
        /\ ~response.ok
        /\ response.status = IF upstream.status = 401 THEN 500
                             ELSE upstream.status
        /\ \A i \in 1..Len(steps) : steps[i] # "extract"

\* an upstream 401 has been answered with status 500
C29_Witness ==
    /\ stage = "done"
    /\ upstream.kind = "response"
    /\ upstream.status = 401
    /\ response.status = 500

\* the request in hand, as the request before is kept
Current ==
    [upstream |-> upstream, response |-> response, consoleLog |-> consoleLog]

\* the run got a text from the model and answered with an error
TextRejected(run) ==
    /\ run.upstream.kind = "response"
    /\ IsOk(run.upstream.status)
    /\ run.upstream.json
    /\ ContentText(run.upstream.content) # <<>>
    /\ ~run.response.ok

\* the run got an upstream response that is not ok
UpstreamNotOk(run) ==
    /\ run.upstream.kind = "response"
    /\ ~IsOk(run.upstream.status)

\* C30: two requests whose model texts both fail to parse get the same
\* response, and their log lines differ at most in the name of the failure;
\* two requests whose upstream responses are not ok and of the same status
\* get the same response and the same log line, whatever the upstream
\* bodies.
C30_ErrorsIndependentOfPayload ==
    stage = "done" /\ previous # NoPrevious =>
        /\ TextRejected(previous) /\ TextRejected(Current) =>
               /\ previous.response = response
               /\ \A run \in {previous, Current} :
                      /\ Len(run.consoleLog) = 1
                      /\ run.consoleLog[1][1] = "JSON parse error:"
                      /\ run.consoleLog[1][2] \in {"Error", "SyntaxError"}
        /\ UpstreamNotOk(previous) /\ UpstreamNotOk(Current)
           /\ previous.upstream.status = upstream.status =>
               /\ previous.response = response
               /\ previous.consoleLog = consoleLog

\* two requests in a row met the same upstream status with different bodies
C30_Witness ==
    /\ stage = "done"
    /\ previous # NoPrevious
    /\ UpstreamNotOk(previous)
    /\ UpstreamNotOk(Current)
    /\ previous.upstream.status = upstream.status
    /\ previous.upstream.body # upstream.body

\* C28: every failed call, a regenerate and an implement-suggestions call
\* as much as a critique or a generate call, stores the message of the
\* failure in error and adds one to retryCount.
C28_FailuresHandledUniformly ==
    [][(\E msg \in FailureMessages :
            \/ CritiqueFails(msg)
            \/ GenerateFails(msg)
            \/ RegenerateFails(msg)
            \/ ImplementFails(msg))
       => /\ error' \in FailureMessages
          /\ retryCount' = retryCount + 1]_vars

\* the value is shaped like an IPv4 or an IPv6 address
IpShaped(t) == MatchesIpv4(t) \/ MatchesIpv6(t)

\* the first token of the forwarded-for header, without the blanks around it
FirstForwarded(hs) == Trim(Split(hs.forwardedFor.v, ",")[1])

\* C27: the identity is the first token of the forwarded-for header if that
\* is shaped like an IP address; else the real-IP header if that is shaped
\* like an IP address; else the fingerprint of user-agent and
\* accept-language.  A forwarded-for token that is not shaped like an IP
\* address falls through to the real-IP header.
C27_ResolveOrder ==
    clientId # NotResolved =>
        clientId =
            IF headers.forwardedFor.present /\ IpShaped(FirstForwarded(headers))
            THEN FirstForwarded(headers)
            ELSE IF headers.realIp.present /\ IpShaped(Trim(headers.realIp.v))
            THEN Trim(headers.realIp.v)
            ELSE FallbackId(headers)

\* every timestamp recorded for the identity is out of the window
Stale(ip) ==
    /\ ip \in DOMAIN rateLimit
    /\ ~HasValid(rateLimit[ip], now - RATE_LIMIT_WINDOW)

\* the clock can still reach the time the next sweep is due
SweepInReach == lastCleanup + CLEANUP_INTERVAL <= MaxClockSteps * ClockStep

C31_LimitersEquivalent ==
    /\ simpleDecision.ip = lastDecision.ip
    /\ simpleDecision.at = lastDecision.at
    /\ simpleDecision.allowed = lastDecision.allowed

\* both refuse a request while the timer cleanup has removed an entry that
\* the ring buffer's map still holds
C31_Witness ==
    /\ lastDecision.ip \in Clients
    /\ ~lastDecision.allowed
    /\ ~simpleDecision.allowed
    /\ \E ip \in DOMAIN rateLimit : ip \notin DOMAIN simpleRateLimit

\* C35: the decision for a request of an identity is the decision of a
\* server that receives that identity's requests only, at the same times:
\* the requests of the others, and the sweeps they trigger, change none.
C35_IsolatedPerIdentity ==
    /\ soloDecision.ip = lastDecision.ip
    /\ soloDecision.at = lastDecision.at
    /\ soloDecision.allowed = lastDecision.allowed

\* a request is decided after a sweep that another identity's request
\* triggered deleted the requester's expired entry, so that the two servers
\* swept at different times
C35_Witness ==
    \E ip \in Clients :
        /\ lastDecision.ip = ip
        /\ lastDecision.allowed
        /\ Len(entryLog[ip]) < Len(acceptedLog[ip])
        /\ solo[ip].lastCleanup # lastCleanup

\* C32: a call of checkRateLimit that refuses leaves the identity's entry
\* as it was; one that accepts writes the time of the call into the slot at
\* head (the oldest retained one when the ring is full), moves head on by
\* one modulo N and sets count to min(count + 1, N); and no call changes the
\* entry of another identity.
C32_AllowFrame ==
    [][now' = now =>
          LET ip == lastDecision'.ip
              swept == Cleaned(rateLimit, now)
              before == IF ip \in DOMAIN swept THEN swept[ip] ELSE NewEntry
              after == rateLimit'[ip]
          IN  /\ ip \in DOMAIN rateLimit'
              /\ ~lastDecision'.allowed =>
                     /\ ip \in DOMAIN rateLimit
                     /\ after = rateLimit[ip]
              /\ lastDecision'.allowed =>
                     /\ after.timestamps[before.head] = now
                     /\ \A i \in 0..(RATE_LIMIT_MAX - 1) :
                            i # before.head =>
                                after.timestamps[i] = before.timestamps[i]
                     /\ after.head = (before.head + 1) % RATE_LIMIT_MAX
                     /\ after.count = Min(before.count + 1, RATE_LIMIT_MAX)
                     /\ before.count = RATE_LIMIT_MAX =>
                            \A i \in 0..(RATE_LIMIT_MAX - 1) :
                                before.timestamps[before.head]
                                    <= before.timestamps[i]
              /\ DOMAIN rateLimit' \ {ip} = DOMAIN swept \ {ip}
              /\ \A c \in DOMAIN swept \ {ip} : rateLimit'[c] = swept[c]]_vars

\* an accepted request has overwritten the oldest timestamp of a full ring
C32_Witness ==
    \E ip \in DOMAIN rateLimit :
        /\ lastDecision.ip = ip
        /\ lastDecision.allowed
        /\ Len(entryLog[ip]) > RATE_LIMIT_MAX
        /\ rateLimit[ip].count = RATE_LIMIT_MAX

\* C34: every entry of the map has 0 <= head < N and 1 <= count <= N, head
\* is the number of requests accepted since the entry was created modulo N,
\* and the count slots that end just before head hold the most recent
\* accepted times, oldest first from slot (head - count) mod N.
C34_EntryWellFormed ==
    \A ip \in DOMAIN rateLimit :
        LET entry == rateLimit[ip]
            log == entryLog[ip]
        IN  /\ entry.head \in 0..(RATE_LIMIT_MAX - 1)
            /\ entry.count \in 1..RATE_LIMIT_MAX
            /\ entry.head = Len(log) % RATE_LIMIT_MAX
            /\ entry.count <= Len(log)
            /\ \A i \in 0..(entry.count - 1) :
                   entry.timestamps[(entry.head - entry.count + i
                                        + RATE_LIMIT_MAX) % RATE_LIMIT_MAX]
                       = log[Len(log) - entry.count + i + 1]
            /\ \A i \in 1..(entry.count - 1) :
                   entry.timestamps[(entry.head - entry.count + i - 1
                                        + RATE_LIMIT_MAX) % RATE_LIMIT_MAX]
                       <= entry.timestamps[(entry.head - entry.count + i
                                        + RATE_LIMIT_MAX) % RATE_LIMIT_MAX]

\* the ring of an entry has wrapped, and a sweep has run
C34_Witness ==
    /\ \E ip \in DOMAIN rateLimit :
           /\ Len(entryLog[ip]) > RATE_LIMIT_MAX
           /\ rateLimit[ip].head = 1
    /\ lastCleanup > 0

RecentlyAccepted(ip, t) ==
    Cardinality({i \in 1..Len(acceptedLog[ip]) :
                    acceptedLog[ip][i] > t - RATE_LIMIT_WINDOW})

\* C36: a request that is past the rate limit has its time recorded in the
\* identity's entry although it is then refused for a missing API key or an
\* invalid body; the model client is never called for it; and once N such
\* requests are within the window, the next request of the identity is
\* answered 429.
C36_AccountingPrecedesChecks ==
    /\ [](stage \in {"idle", "body", "done"} /\ ModelCalls = 0)
    /\ []((stage = "done" /\ response # TooManyRequests) =>
              /\ response.status \in {400, 500}
              /\ lastDecision.allowed
              /\ lastDecision.ip \in DOMAIN rateLimit
              /\ LET entry == rateLimit[lastDecision.ip]
                 IN  entry.timestamps[(entry.head - 1 + RATE_LIMIT_MAX)
                                          % RATE_LIMIT_MAX] = lastDecision.at
              /\ acceptedLog[lastDecision.ip]
                     [Len(acceptedLog[lastDecision.ip])] = lastDecision.at)
    /\ [][(now' = now /\ stage # "body"
           /\ RecentlyAccepted(lastDecision'.ip, now) >= RATE_LIMIT_MAX) =>
              /\ stage' = "done"
              /\ response' = TooManyRequests
              /\ acceptedLog' = acceptedLog]_<<stage, request, lastDecision,
                                               rateLimit, now>>

\* a request is answered 429 after N refused requests within the window,
\* the last of them refused by the validation, some time after the first
C36_Witness ==
    /\ stage = "done"
    /\ response = TooManyRequests
    /\ previous # NoPrevious
    /\ previous.response.status = 400
    /\ now > 0
    /\ RecentlyAccepted(lastDecision.ip, now) = RATE_LIMIT_MAX

\* C37: selectedModel is always one of the models of selectedVendor; a
\* vendor change in phase input selects the first model of the new vendor
\* and starts no call; a change of the model alone picks one of the models
\* of the vendor; a regenerate sets vendor and model together.
C37_ModelBelongsToVendor ==
    /\ [](selectedModel \in Range(Models(selectedVendor)))
    /\ [][/\ \A vendor \in Vendors :
                 (HandleVendorChange(vendor) /\ phase = "input") =>
                     /\ selectedVendor' = vendor
                     /\ selectedModel' = Models(vendor)[1]
                     /\ UNCHANGED <<inflight, flagVars>>
          /\ \A model \in AllModels :
                 HandleModelChange(model) =>
                     /\ selectedModel' \in Range(Models(selectedVendor))
                     /\ UNCHANGED selectedVendor
          /\ inflight'["regenerate"] > inflight["regenerate"] =>
                 selectedModel' \in Range(Models(selectedVendor'))]_vars

\* the other vendor was chosen in phase input and its second model after it
C37_Witness ==
    /\ phase = "input"
    /\ selectedVendor = "gemini"
    /\ selectedModel = Models("gemini")[2]
    /\ inflight["regenerate"] = 0
    /\ result = NULL

\* C38: a regenerate call that fails leaves result and phase as they are,
\* stores the message and puts isRegenerating back to false; the vendor and
\* the model stay as the call set them when it started, while it is awaited
\* and when it fails, so the result on display is the one that was there
\* before the switch.
C38_RegenerateFailureKeepsSelection ==
    [][/\ \A msg \in FailureMessages :
              RegenerateFails(msg) =>
                  /\ UNCHANGED <<result, phase, modelVars>>
                  /\ error' = msg
                  /\ ~isRegenerating'
       /\ \A vendor \in Vendors :
              (HandleVendorChange(vendor) /\ phase = "result") =>
                  /\ selectedVendor' = vendor
                  /\ UNCHANGED result
       /\ (inflight["regenerate"] > 0 /\ inflight'["regenerate"] > 0) =>
              UNCHANGED modelVars]_vars

\* a switch to the other vendor has failed: the result is still on display,
\* under the vendor the failed call asked for
C38_Witness ==
    /\ phase = "result"
    /\ result # NULL
    /\ error \in FailureMessages
    /\ retryCount = 0
    /\ ~isRegenerating
    /\ inflight["regenerate"] = 0
    /\ selectedVendor = "gemini"
    /\ selectedModel = Models("gemini")[1]

\* the flags are set only while a call is awaited
FlagsHaveCalls ==
    /\ isLoading => inflight["critique"] + inflight["generate"] > 0
    /\ isRegenerating => inflight["regenerate"] > 0

\* C39: when every awaited call returns or fails, isLoading set by a started
\* critique or generate call, and isRegenerating set by a started
\* regenerate, are false again later; the step in which a call returns
\* clears its flag whether the call succeeded or failed; and no flag is set
\* while no call of its kind is awaited.
C39_FlagsAreCleared ==
    /\ isLoading ~> ~isLoading
    /\ isRegenerating ~> ~isRegenerating
    /\ [](FlagsHaveCalls)
    /\ [][/\ (CritiqueReturns \/ GenerateReturns) => ~isLoading'
          /\ RegenerateCompletes => ~isRegenerating']_vars

\* a generate call that failed has cleared isLoading, with nothing awaited
C39_Witness ==
    /\ phase = "critique"
    /\ ~isLoading
    /\ error \in FailureMessages
    /\ retryCount > 0
    /\ InFlightTotal = 0

\* C40: the debounced reset, when it fires, puts phase to input and empties
\* critique, answers and result, and leaves inputText, entryMode, the
\* problem context, the vendor and the model, retryCount, error, both flags
\* and the awaited calls as they are; an edit in phase input changes
\* inputText and nothing else, and starts no timer.
C40_ResetFrame ==
    [][/\ \A k \in TimerIds :
              ResetTimeoutFires(k) =>
                  /\ phase' = "input"
                  /\ critique' = NULL
                  /\ answers' = NoAnswers
                  /\ result' = NULL
                  /\ UNCHANGED <<inputText, entryMode, problemContext,
                                 showProblemContext, selectedVendor,
                                 selectedModel, retryCount, error, isLoading,
                                 isRegenerating, inflight, mounted>>
       /\ \A text \in InputTexts :
              (HandleInputChange(text) /\ phase = "input") =>
                  /\ inputText' = text
                  /\ PendingTimers' = PendingTimers
                  /\ UNCHANGED <<entryMode, phase, selectedVendor,
                                 selectedModel, problemContext,
                                 showProblemContext, critique, answers,
                                 result, isLoading, error, isRegenerating,
                                 retryCount, resetTimeout, orphanTimers,
                                 inflight, mounted>>]_vars

\* the reset has fired while a generate call, tried again after a failure,
\* is awaited: the flag, the count, the text and the problem context are
\* still there
C40_Witness ==
    /\ mounted
    /\ phase = "input"
    /\ critique = NULL /\ result = NULL /\ answers = NoAnswers
    /\ PendingTimers = 0
    /\ isLoading
    /\ inflight["generate"] > 0
    /\ retryCount > 0
    /\ inputText # EmptyText
    /\ problemContext # EmptyText
====
